---- MODULE Spec2Model ----
(***************************************************************************)
(* A model of the arXiv offline cache (package arxiv): the Store (papers,  *)
(* citations, sync_state), the resumable OAI-PMH harvester SyncMetadata,   *)
(* the download pipeline DownloadPaper and the citation update             *)
(* UpdateCitations.                                                        *)
(*                                                                         *)
(* Conventions.  A resumption token is a natural number: 0 is the empty    *)
(* string (no token), k > 0 is the token the remote returned with page k,  *)
(* and a request carrying token k is answered with page k+1.  A context    *)
(* is TRUE while live and FALSE once cancelled; a database call made with  *)
(* a cancelled context fails without touching the Store (database/sql      *)
(* checks the context before it takes a connection).                       *)
(***************************************************************************)
EXTENDS Naturals, Integers, Sequences, FiniteSets, Bags, TLC

\* ---------------------------------------------------------------- bounds
NumPages == 3        \* pages the remote serves for one harvest
MaxRuns == 2         \* SyncMetadata invocations explored

\* -------------------------------------------------------- program constants
DefaultBatchSize == 1000

PaperIDs == {"p1", "p2"}
BatchSizes == {0, 1, 2}
Today == "2026-01-02"
CallerFrom == "2024-06-01"
NoDate == ""
NoSet == ""
CallerSet == "cs"
CallerUntil == "2025-01-01"

\* ----------------------------------------------------------------- state
VARIABLES
    papers,           \* papers table: id -> row
    citations,        \* citations table: bag of rows <<from_id, to_id>>
    syncState,        \* sync_state table: resumption_token, last_sync
    \* SyncMetadata (one sequential harvester)
    spc,              \* position of the running SyncMetadata call
    sctx,             \* its context: TRUE live, FALSE cancelled
    resumptionToken,  \* local variable resumptionToken
    batch,            \* local variable batch (sequence of paper ids)
    opts,             \* opts.Set, From, Until and BatchSize after defaulting
    resp,             \* page number of the response being processed
    sresult,          \* what the call returned
    runs,             \* invocations started so far
    \* observations of the harvester (never read by the program)
    reqs,             \* requests this run put on the wire
    log,              \* events of this run, in order
    consumed,         \* pages this run consumed
    failedPage,       \* page whose request failed in this run (0: none)
    startToken,       \* token persisted when this run started
    atStart,          \* the caller's filters and the persisted last_sync, likewise
    prev,             \* how the previous run ended
    \* the artifact trees on disk
    pdfFile,          \* pdf/<prefix>/<id>.pdf: "absent", "partial" or "complete"
    srcDir,           \* src/<prefix>/<id>: "absent", "partial" or "complete"
    \* callers of DownloadPaper, Fetch, FetchBatch and UpdateCitations
    calls,            \* per caller: the call it is in and where
    hist,             \* what the sequential client saw (never read by the program)
    \* downloadSource from the temp file on: extractSource and the fallback
    ex,               \* the run: payload, position, what it wrote
    \* the LRUCache of Cache.paperLRU
    paperLRU,         \* capacity, cache (the map's keys), list (front first)
    mu,               \* the cache's RWMutex
    lruCalls,         \* per caller: the LRUCache method it is in and where
    lruRef,           \* a reference LRU fed the same calls (never read by the program)
    \* DownloadCategory (one bulk downloader)
    dc,               \* the run: ids selected, position, context, what it returned
    \* RebuildAllCitations (run by the re-indexer)
    rb,               \* the run: papers found, position, context, what it returned
    \* ExtractReferences on a source tree
    er,               \* the run: tree, position, seen, refs, pdfFiles
    \* GetCitationGraph on a citations table
    cg,               \* the call: tables, position, nodeSet, edgeSet, graph
    \* the papers table with its rowids and the index papers_fts
    ix,               \* rows, index entries, pending Fetch calls
    \* the web server (cmd/arxiv serve)
    sv                \* the process-lifetime context: TRUE until the signal

storeVars == <<papers, citations, syncState>>
diskVars == <<pdfFile, srcDir>>
workVars == <<calls, hist>>
syncLocal == <<spc, sctx, resumptionToken, batch, opts, resp, sresult, runs>>
syncObs == <<reqs, log, consumed, failedPage, startToken, atStart, prev>>
syncVars == <<syncLocal, syncObs>>
lruVars == <<paperLRU, mu, lruCalls, lruRef>>
pureVars == <<er, cg, ix, sv>>
moreVars == <<dc, rb, pureVars>>
libVars == <<ex, lruVars, moreVars>>
vars == <<storeVars, syncVars, diskVars, workVars, libVars>>

Workers == {"w1", "w2"}
SeqClient == "s"
Reindexer == "r"
Bulk == "b"
Callers == Workers \cup {SeqClient, Reindexer, Bulk}

\* ------------------------------------------------------------- the Store
NoRow ==
    [present |-> FALSE, title |-> "", pdf_path |-> "", pdf_downloaded |-> FALSE,
     src_path |-> "", src_downloaded |-> FALSE]

\* Paper as ListRecords builds it: metadata only, every download field zero.
HarvestedPaper ==
    [present |-> TRUE, title |-> "oai", pdf_path |-> "", pdf_downloaded |-> FALSE,
     src_path |-> "", src_downloaded |-> FALSE]

Present(tbl) == {p \in PaperIDs : tbl[p].present}

Ids(s) == {s[i] : i \in 1..Len(s)}

\* --------------------------------------------------------- the remote (OAI)
\* Records of page k and the continuation token returned with it.
PageRecords(k) ==
    CASE k % 3 = 1 -> <<"p1">>
      [] k % 3 = 2 -> <<"p2", "p1">>
      [] OTHER -> <<>>

PageToken(k) == IF k < NumPages THEN k ELSE 0

\* The page a request carrying token t is answered with.
PageOf(t) == t + 1

\* ------------------------------------------------------------ SyncMetadata
\* gorm Save of a slice: INSERT ... ON CONFLICT (id) DO UPDATE SET every
\* non-key column, so an existing row is overwritten by the harvested Paper.
insertPapers(tbl, b) ==
    [p \in PaperIDs |-> IF p \in Ids(b) THEN HarvestedPaper ELSE tbl[p]]

saveResumptionToken_Dropped(ss, token, live) == ss

saveResumptionToken(ss, token, live) ==
    IF live THEN [ss EXCEPT !.resumption_token = token] ELSE ss

loadResumptionToken_Restart(ss, live) == 0

loadResumptionToken(ss, live) == IF live THEN ss.resumption_token ELSE 0

\* opts.From after line 45-50: last_sync is consulted only without a token and
\* without a caller-supplied start date.
defaultFrom_Always(ss, token, from, live) ==
    IF token = 0 /\ live /\ ss.last_sync # NoDate
    THEN ss.last_sync
    ELSE from

defaultFrom(ss, token, from, live) ==
    IF token = 0 /\ from = NoDate /\ live /\ ss.last_sync # NoDate
    THEN ss.last_sync
    ELSE from

\* if opts.BatchSize == 0 { opts.BatchSize = 1000 }
defaultBatchSize_Keep(n) == n

defaultBatchSize(n) == IF n = 0 THEN DefaultBatchSize ELSE n

\* What ListRecords puts on the wire: the token alone, or the filters.
ListRecordsRequest_AllParams(set, from, until, token) ==
    [token |-> token, set |-> set, from |-> from, until |-> until]

ListRecordsRequest(set, from, until, token) ==
    IF token # 0 THEN [token |-> token, set |-> NoSet, from |-> NoDate, until |-> NoDate]
    ELSE [token |-> 0, set |-> set, from |-> from, until |-> until]

SyncBegin(r) ==
    /\ spc \in {"idle", "done"}
    /\ \E live \in BOOLEAN, from \in {NoDate, CallerFrom}, bs \in BatchSizes,
          flt \in {[Set |-> NoSet, Until |-> NoDate], [Set |-> CallerSet, Until |-> CallerUntil]} :
          LET tok == loadResumptionToken(syncState, live) IN
          /\ sctx' = live
          /\ resumptionToken' = tok
          /\ opts' = [Set |-> flt.Set,
                      From |-> defaultFrom(syncState, tok, from, live),
                      Until |-> flt.Until,
                      BatchSize |-> defaultBatchSize(bs)]
          /\ atStart' = [Set |-> flt.Set, From |-> from, Until |-> flt.Until,
                         last_sync |-> syncState.last_sync]
    /\ batch' = <<>>
    /\ resp' = 0
    /\ sresult' = "none"
    /\ runs' = r
    /\ spc' = "loop"
    /\ reqs' = <<>>
    /\ log' = <<>>
    /\ consumed' = {}
    /\ failedPage' = 0
    /\ startToken' = syncState.resumption_token
    /\ prev' = [result |-> sresult, failedPage |-> failedPage,
                token |-> syncState.resumption_token]
    /\ UNCHANGED <<storeVars, diskVars, workVars>>
    /\ UNCHANGED libVars

SyncStart ==
    /\ runs < MaxRuns
    /\ SyncBegin(runs + 1)

\* The caller invokes SyncMetadata again because the last run returned an
\* error (or died).
SyncRestart ==
    /\ spc = "done"
    /\ sresult # "nil"
    /\ SyncBegin(IF runs < MaxRuns THEN runs + 1 ELSE runs)

\* The caller cancels the context while the call runs.
SyncCancel ==
    /\ spc \notin {"idle", "done"}
    /\ sctx
    /\ sctx' = FALSE
    /\ UNCHANGED <<storeVars, diskVars, workVars, spc, resumptionToken, batch, opts, resp, sresult, runs, syncObs>>
    /\ UNCHANGED libVars

\* select on ctx.Done() at the top of the loop.
SyncCheckCtx ==
    /\ spc = "loop"
    /\ IF sctx
       THEN /\ spc' = "request"
            /\ UNCHANGED sresult
       ELSE /\ spc' = "done"
            /\ sresult' = "ctx_err"
    /\ UNCHANGED <<storeVars, diskVars, workVars, sctx, resumptionToken, batch, opts, resp, runs, syncObs>>
    /\ UNCHANGED libVars

\* client.ListRecords fails: the token in hand is saved again and the error returned.
SyncListRecordsFail ==
    /\ spc = "request"
    /\ syncState' =
          IF resumptionToken # 0
          THEN saveResumptionToken(syncState, resumptionToken, sctx)
          ELSE syncState
    \* with a cancelled context the transport refuses before anything is sent
    /\ reqs' = IF sctx THEN Append(reqs, ListRecordsRequest(opts.Set, opts.From, opts.Until, resumptionToken))
               ELSE reqs
    /\ log' = IF sctx THEN Append(log, "request") ELSE log
    /\ failedPage' = PageOf(resumptionToken)
    /\ sresult' = "list_err"
    /\ spc' = "done"
    /\ UNCHANGED <<diskVars, workVars, papers, citations, sctx, resumptionToken, batch, opts, resp, runs,
                   consumed, startToken, atStart, prev>>
    /\ UNCHANGED libVars

\* client.ListRecords answers with the next page.
SyncListRecordsOk ==
    /\ spc = "request"
    /\ sctx
    /\ PageOf(resumptionToken) <= NumPages
    /\ resp' = PageOf(resumptionToken)
    /\ reqs' = Append(reqs, ListRecordsRequest(opts.Set, opts.From, opts.Until, resumptionToken))
    /\ log' = Append(log, "request")
    /\ spc' = "append"
    /\ UNCHANGED <<storeVars, diskVars, workVars, sctx, resumptionToken, batch, opts, sresult, runs,
                   consumed, failedPage, startToken, atStart, prev>>
    /\ UNCHANGED libVars

\* batch = append(batch, resp.Papers...)
SyncAppend ==
    /\ spc = "append"
    /\ batch' = batch \o PageRecords(resp)
    /\ consumed' = consumed \cup {resp}
    /\ log' = Append(log, "consume")
    /\ spc' = "commit"
    /\ UNCHANGED <<storeVars, diskVars, workVars, sctx, resumptionToken, opts, resp, sresult, runs,
                   reqs, failedPage, startToken, atStart, prev>>
    /\ UNCHANGED libVars

\* if len(batch) >= opts.BatchSize: insertPapers, which may fail.
SyncCommitSkip ==
    /\ spc = "commit"
    /\ Len(batch) < opts.BatchSize
    /\ spc' = "token"
    /\ UNCHANGED <<storeVars, diskVars, workVars, sctx, resumptionToken, batch, opts, resp, sresult, runs, syncObs>>
    /\ UNCHANGED libVars

SyncCommitOk ==
    /\ spc = "commit"
    /\ Len(batch) >= opts.BatchSize
    /\ sctx
    /\ papers' = insertPapers(papers, batch)
    /\ batch' = <<>>
    /\ log' = Append(log, "commit")
    /\ spc' = "token"
    /\ UNCHANGED <<diskVars, workVars, citations, syncState, sctx, resumptionToken, opts, resp, sresult, runs,
                   reqs, consumed, failedPage, startToken, atStart, prev>>
    /\ UNCHANGED libVars

SyncCommitFail ==
    /\ spc = "commit"
    /\ Len(batch) >= opts.BatchSize
    /\ sresult' = "insert_err"
    /\ spc' = "done"
    /\ UNCHANGED <<storeVars, diskVars, workVars, sctx, resumptionToken, batch, opts, resp, runs, syncObs>>
    /\ UNCHANGED libVars

\* if resp.ResumptionToken != "": save it, then sleep; else leave the loop.
SyncSaveToken ==
    /\ spc = "token"
    /\ PageToken(resp) # 0
    /\ syncState' = saveResumptionToken(syncState, PageToken(resp), sctx)
    /\ resumptionToken' = PageToken(resp)
    /\ log' = Append(log, IF syncState'.resumption_token = PageToken(resp)
                          THEN "persist" ELSE "persist_failed")
    /\ spc' = "sleep"
    /\ UNCHANGED <<diskVars, workVars, papers, citations, sctx, batch, opts, resp, sresult, runs,
                   reqs, consumed, failedPage, startToken, atStart, prev>>
    /\ UNCHANGED libVars

\* } else { break }
SyncLastPage_AnyToken ==
    /\ spc = "token"
    /\ spc' = "flush"
    /\ UNCHANGED <<storeVars, diskVars, workVars, sctx, resumptionToken, batch, opts, resp, sresult, runs, syncObs>>
    /\ UNCHANGED libVars

SyncLastPage ==
    /\ spc = "token"
    /\ PageToken(resp) = 0
    /\ spc' = "flush"
    /\ UNCHANGED <<storeVars, diskVars, workVars, sctx, resumptionToken, batch, opts, resp, sresult, runs, syncObs>>
    /\ UNCHANGED libVars

\* time.Sleep(3 * time.Second)
SyncSleep ==
    /\ spc = "sleep"
    /\ log' = Append(log, "sleep")
    /\ spc' = "loop"
    /\ UNCHANGED <<storeVars, diskVars, workVars, sctx, resumptionToken, batch, opts, resp, sresult, runs,
                   reqs, consumed, failedPage, startToken, atStart, prev>>
    /\ UNCHANGED libVars

\* Insert remaining papers.
SyncFlushSkip ==
    /\ spc = "flush"
    /\ Len(batch) = 0
    /\ spc' = "clear"
    /\ UNCHANGED <<storeVars, diskVars, workVars, sctx, resumptionToken, batch, opts, resp, sresult, runs, syncObs>>
    /\ UNCHANGED libVars

SyncFlushOk ==
    /\ spc = "flush"
    /\ Len(batch) > 0
    /\ sctx
    /\ papers' = insertPapers(papers, batch)
    /\ log' = Append(log, "commit")
    /\ spc' = "clear"
    /\ UNCHANGED <<diskVars, workVars, citations, syncState, sctx, resumptionToken, batch, opts, resp, sresult,
                   runs, reqs, consumed, failedPage, startToken, atStart, prev>>
    /\ UNCHANGED libVars

SyncFlushFail ==
    /\ spc = "flush"
    /\ Len(batch) > 0
    /\ sresult' = "insert_err"
    /\ spc' = "done"
    /\ UNCHANGED <<storeVars, diskVars, workVars, sctx, resumptionToken, batch, opts, resp, runs, syncObs>>
    /\ UNCHANGED libVars

\* Delete of the resumption_token row; its error is not looked at.
clearResumptionToken(ss, live) == IF live THEN [ss EXCEPT !.resumption_token = 0] ELSE ss

SyncClearToken ==
    /\ spc = "clear"
    /\ syncState' = clearResumptionToken(syncState, sctx)
    /\ spc' = "last_sync"
    /\ UNCHANGED <<diskVars, workVars, papers, citations, sctx, resumptionToken, batch, opts, resp, sresult,
                   runs, syncObs>>
    /\ UNCHANGED libVars

\* Save of last_sync = today; its error is not looked at; return nil.
saveLastSync(ss, live) == IF live THEN [ss EXCEPT !.last_sync = Today] ELSE ss

SyncSaveLastSync ==
    /\ spc = "last_sync"
    /\ syncState' = saveLastSync(syncState, sctx)
    /\ sresult' = "nil"
    /\ spc' = "done"
    /\ UNCHANGED <<diskVars, workVars, papers, citations, sctx, resumptionToken, batch, opts, resp, runs, syncObs>>
    /\ UNCHANGED libVars

\* The process dies while SyncMetadata runs: its locals are gone, the Store stays.
SyncCrash ==
    /\ spc \notin {"idle", "done"}
    /\ sresult' = "crashed"
    /\ spc' = "done"
    /\ UNCHANGED <<storeVars, diskVars, workVars, sctx, resumptionToken, batch, opts, resp, runs, syncObs>>
    /\ UNCHANGED libVars

\* The steps of a running SyncMetadata call.
SyncSteps ==
    \/ SyncCancel
    \/ SyncCheckCtx
    \/ SyncListRecordsFail
    \/ SyncListRecordsOk
    \/ SyncAppend
    \/ SyncCommitSkip
    \/ SyncCommitOk
    \/ SyncCommitFail
    \/ SyncSaveToken
    \/ SyncLastPage
    \/ SyncSleep
    \/ SyncFlushSkip
    \/ SyncFlushOk
    \/ SyncFlushFail
    \/ SyncClearToken
    \/ SyncSaveLastSync
    \/ SyncCrash

NextSync ==
    \/ SyncStart
    \/ SyncSteps

\* ------------------------------------------------------- artifacts on disk
\* paperPrefix: the first four characters of the id, or the id when shorter.
paperPrefix(id) == id

pdfPathOf(id) == "pdf/" \o paperPrefix(id) \o "/" \o id \o ".pdf"

srcPathOf(id) == "src/" \o paperPrefix(id) \o "/" \o id

\* References the source tree of a paper yields once it is fully extracted.
SourceRefs(id) == IF id = "p1" THEN <<"p2", "p1">> ELSE <<"p1">>

\* Results ExtractReferences can return for a directory the caller names.
RefLists == {<<>>, <<"p1">>, <<"p2">>, <<"p1", "p2">>, <<"p2", "p1">>}

Prefixes(s) == {SubSeq(s, 1, n) : n \in 0..Len(s)}

\* ExtractReferences walks whatever files are in the directory at that moment.
ExtractReferences(dir, id) ==
    CASE dir = "complete" -> {SourceRefs(id)}
      [] dir = "partial" -> Prefixes(SourceRefs(id))
      [] OTHER -> {<<>>}

EdgesFrom(tbl, id) == {e \in BagToSet(tbl) : e[1] = id}

\* ---------------------------------------------------------------- callers
DownloadOpts ==
    {[DownloadPDF |-> TRUE, DownloadSource |-> FALSE],
     [DownloadPDF |-> FALSE, DownloadSource |-> TRUE],
     [DownloadPDF |-> TRUE, DownloadSource |-> TRUE]}

NoCall ==
    [op |-> "none", pc |-> "idle", id |-> "", opts |-> [DownloadPDF |-> FALSE, DownloadSource |-> FALSE],
     paper |-> NoRow, ctx |-> TRUE, result |-> "none", http |-> 0,
     srcPath |-> "", refs |-> <<>>, i |-> 0, linked |-> FALSE, missing |-> {}]

NoHist ==
    [op |-> "none", id |-> "", opts |-> NoCall.opts, result |-> "none",
     pdf |-> "absent", src |-> "absent", row |-> NoRow, edges |-> {},
     srcPath |-> "", refs |-> <<>>, live |-> TRUE, table |-> EmptyBag]

Free(w) == calls[w].pc \in {"idle", "done"}

At(w, op, pc) == calls[w].op = op /\ calls[w].pc = pc

\* What the sequential client records when it starts a call right after a
\* DownloadPaper that returned nil: that call, and the state it left for its
\* paper.  The re-indexer records the UpdateCitations call it just finished and
\* the citations table that call left.
Observe(w) ==
    IF w = SeqClient /\ calls[w].op = "DownloadPaper" /\ calls[w].result = "nil"
    THEN LET id == calls[w].id IN
         [NoHist EXCEPT !.op = calls[w].op, !.id = id, !.opts = calls[w].opts,
                        !.result = calls[w].result, !.pdf = pdfFile[id],
                        !.src = srcDir[id], !.row = papers[id],
                        !.edges = EdgesFrom(citations, id)]
    ELSE IF w = Reindexer /\ calls[w].op = "UpdateCitations" /\ calls[w].result = "nil"
    THEN [NoHist EXCEPT !.op = calls[w].op, !.id = calls[w].id,
                        !.result = calls[w].result, !.srcPath = calls[w].srcPath,
                        !.refs = calls[w].refs, !.live = calls[w].ctx,
                        !.table = citations]
    ELSE NoHist

\* The call returns r; its locals are gone.
Return(c, r) ==
    [c EXCEPT !.pc = "done", !.result = r, !.linked = FALSE, !.paper = NoRow,
              !.i = 0, !.missing = {}]

\* An HTTP request is put on the wire only while the context is live.
Sent(c) == [c EXCEPT !.http = IF c.ctx THEN c.http + 1 ELSE c.http]

\* The caller's context is cancelled while the call runs.
Cancel(w) ==
    /\ ~Free(w)
    /\ calls[w].ctx
    /\ calls' = [calls EXCEPT ![w].ctx = FALSE]
    /\ UNCHANGED <<storeVars, syncVars, diskVars, hist>>
    /\ UNCHANGED libVars

\* The process dies and is started again: every call in progress is gone
\* with its locals; the files on disk and the Store are as they were.
Crash ==
    /\ \E w \in Callers : ~Free(w)
    /\ calls' = [w \in Callers |-> NoCall]
    /\ UNCHANGED <<storeVars, syncVars, diskVars, hist>>
    /\ UNCHANGED libVars

\* ----------------------------------------------------------- DownloadPaper
\* UPDATE papers SET pdf_path = ?, pdf_downloaded = 1 WHERE id = ?
markPDFDownloaded_PathOnly(row, path) == [row EXCEPT !.pdf_path = path]

markPDFDownloaded(row, path) ==
    [row EXCEPT !.pdf_path = path, !.pdf_downloaded = TRUE]

\* UPDATE papers SET src_path = ?, src_downloaded = 1 WHERE id = ?
markSourceDownloaded(row, path) ==
    [row EXCEPT !.src_path = path, !.src_downloaded = TRUE]

\* ExecContext of a single-row UPDATE; its error is discarded by the caller.
execUpdate(tbl, id, live, row) ==
    IF live /\ tbl[id].present THEN [tbl EXCEPT ![id] = row] ELSE tbl

\* os.Remove(path) on a failed copy.
removePartial(f) == "absent"

\* GetPaper, then the call proceeds with the row it read.
DownloadPaperStart(w, id) ==
    /\ Free(w)
    /\ \E live \in BOOLEAN, o \in DownloadOpts :
          LET found == live /\ papers[id].present IN
          calls' = [calls EXCEPT ![w] =
                      [NoCall EXCEPT !.op = "DownloadPaper", !.id = id, !.opts = o,
                                     !.ctx = live,
                                     !.paper = IF found THEN papers[id] ELSE NoRow,
                                     !.pc = IF found THEN "pdf" ELSE "done",
                                     !.result = IF found THEN "none" ELSE "err_get"]]
    /\ hist' = Observe(w)
    /\ UNCHANGED <<storeVars, syncVars, diskVars>>
    /\ UNCHANGED libVars

\* opts.DownloadPDF && !paper.PDFDownloaded, then downloadPDF up to os.Stat.
DownloadPDFStat(w) ==
    /\ At(w, "DownloadPaper", "pdf")
    /\ LET c == calls[w] IN
       calls' = [calls EXCEPT ![w].pc =
                   IF c.opts.DownloadPDF /\ ~c.paper.pdf_downloaded
                   THEN IF pdfFile[c.id] # "absent" THEN "pdf_update" ELSE "pdf_get"
                   ELSE "src"]
    /\ UNCHANGED <<storeVars, syncVars, diskVars, hist>>
    /\ UNCHANGED libVars

\* The GET fails, or answers with a status other than 200.
DownloadPDFGetFail(w) ==
    /\ At(w, "DownloadPaper", "pdf_get")
    /\ calls' = [calls EXCEPT ![w] = Return(Sent(calls[w]), "err_pdf_get")]
    /\ UNCHANGED <<storeVars, syncVars, diskVars, hist>>
    /\ UNCHANGED libVars

\* 200 OK, then os.Create(path): the destination exists, empty.
DownloadPDFCreate(w) ==
    /\ At(w, "DownloadPaper", "pdf_get")
    /\ calls[w].ctx
    /\ pdfFile' = [pdfFile EXCEPT ![calls[w].id] = "partial"]
    /\ calls' = [calls EXCEPT ![w] = [Sent(calls[w]) EXCEPT !.pc = "pdf_copy", !.linked = TRUE]]
    /\ UNCHANGED <<storeVars, syncVars, srcDir, hist>>
    /\ UNCHANGED libVars

\* io.Copy runs to the end; the bytes land in the file this call created.
DownloadPDFCopyOk(w) ==
    /\ At(w, "DownloadPaper", "pdf_copy")
    /\ calls[w].ctx
    /\ pdfFile' = IF calls[w].linked
                  THEN [pdfFile EXCEPT ![calls[w].id] = "complete"]
                  ELSE pdfFile
    /\ calls' = [calls EXCEPT ![w].pc = "pdf_update", ![w].linked = FALSE]
    /\ UNCHANGED <<storeVars, syncVars, srcDir, hist>>
    /\ UNCHANGED libVars

\* io.Copy fails part-way: os.Remove(path), and the error is returned.
DownloadPDFCopyFail(w) ==
    /\ At(w, "DownloadPaper", "pdf_copy")
    /\ LET id == calls[w].id IN
       /\ pdfFile' = [pdfFile EXCEPT ![id] = removePartial(pdfFile[id])]
       /\ calls' = [v \in Callers |->
                      IF v = w THEN Return(calls[w], "err_pdf_copy")
                      ELSE IF calls[v].id = id /\ pdfFile'[id] = "absent"
                           THEN [calls[v] EXCEPT !.linked = FALSE]
                           ELSE calls[v]]
    /\ UNCHANGED <<storeVars, syncVars, srcDir, hist>>
    /\ UNCHANGED libVars

DownloadPDFUpdate(w) ==
    /\ At(w, "DownloadPaper", "pdf_update")
    /\ LET c == calls[w] IN
       papers' = execUpdate(papers, c.id, c.ctx, markPDFDownloaded(papers[c.id], pdfPathOf(c.id)))
    /\ calls' = [calls EXCEPT ![w].pc = "src"]
    /\ UNCHANGED <<citations, syncState, syncVars, diskVars, hist>>
    /\ UNCHANGED libVars

\* opts.DownloadSource && !paper.SourceDownloaded, then downloadSource up to
\* os.Stat(srcDir); without it DownloadPaper returns nil.
DownloadSourceStat(w) ==
    /\ At(w, "DownloadPaper", "src")
    /\ LET c == calls[w] IN
       calls' = [calls EXCEPT ![w] =
                   IF c.opts.DownloadSource /\ ~c.paper.src_downloaded
                   THEN [c EXCEPT !.pc = IF srcDir[c.id] # "absent" THEN "src_update" ELSE "src_get"]
                   ELSE Return(c, "nil")]
    /\ UNCHANGED <<storeVars, syncVars, diskVars, hist>>
    /\ UNCHANGED libVars

\* The GET fails, the status is not 200, or the copy to the temp file fails.
DownloadSourceGetFail(w) ==
    /\ At(w, "DownloadPaper", "src_get")
    /\ calls' = [calls EXCEPT ![w] = Return(Sent(calls[w]), "err_src_get")]
    /\ UNCHANGED <<storeVars, syncVars, diskVars, hist>>
    /\ UNCHANGED libVars

\* The archive is in the temp file.
DownloadSourceGetOk(w) ==
    /\ At(w, "DownloadPaper", "src_get")
    /\ calls[w].ctx
    /\ calls' = [calls EXCEPT ![w] = [Sent(calls[w]) EXCEPT !.pc = "src_extract"]]
    /\ UNCHANGED <<storeVars, syncVars, diskVars, hist>>
    /\ UNCHANGED libVars

\* extractSource (or the main.tex fallback) makes srcDir and starts writing
\* into it: os.Create truncates a file that is already there.
ExtractSourceBegin(w) ==
    /\ At(w, "DownloadPaper", "src_extract")
    /\ srcDir' = [srcDir EXCEPT ![calls[w].id] = "partial"]
    /\ calls' = [calls EXCEPT ![w].pc = "src_write"]
    /\ UNCHANGED <<storeVars, syncVars, pdfFile, hist>>
    /\ UNCHANGED libVars

\* The last entry is written.
ExtractSourceEnd(w) ==
    /\ At(w, "DownloadPaper", "src_write")
    /\ srcDir' = [srcDir EXCEPT ![calls[w].id] = "complete"]
    /\ calls' = [calls EXCEPT ![w].pc = "src_update"]
    /\ UNCHANGED <<storeVars, syncVars, pdfFile, hist>>
    /\ UNCHANGED libVars

DownloadSourceUpdate(w) ==
    /\ At(w, "DownloadPaper", "src_update")
    /\ LET c == calls[w] IN
       papers' = execUpdate(papers, c.id, c.ctx, markSourceDownloaded(papers[c.id], srcPathOf(c.id)))
    /\ calls' = [calls EXCEPT ![w].pc = "cit", ![w].srcPath = srcPathOf(calls[w].id)]
    /\ UNCHANGED <<citations, syncState, syncVars, diskVars, hist>>
    /\ UNCHANGED libVars

\* --------------------------------------------------------- UpdateCitations
\* Where("from_id = ?", paperID).Delete(&Citation{}), error discarded.
deleteCitationsFrom_All(tbl, id, live) == IF live THEN EmptyBag ELSE tbl

deleteCitationsFrom(tbl, id, live) ==
    IF live THEN [e \in {x \in DOMAIN tbl : x[1] # id} |-> tbl[e]] ELSE tbl

\* FirstOrCreate(&citation, citation), error discarded: the row is inserted
\* unless a row with this (from_id, to_id) is there; the composite primary key
\* turns away a second one.
firstOrCreate_Create(tbl, from, to, live) ==
    IF live THEN tbl (+) SetToBag({<<from, to>>}) ELSE tbl

firstOrCreate(tbl, from, to, live) ==
    IF live /\ ~BagIn(<<from, to>>, tbl) THEN tbl (+) SetToBag({<<from, to>>}) ELSE tbl

\* What the caller gets once the citation step is over; failed says that
\* nothing was extracted or that the database calls failed.  UpdateCitations
\* returns nil whatever its database calls did, and DownloadPaper drops
\* what UpdateCitations returns ("Non-fatal") and returns nil.
afterCitations_Fatal(op, failed) ==
    IF op = "DownloadPaper" /\ failed THEN "err_citations" ELSE "nil"

afterCitations(op, failed) == "nil"

\* The directory a direct caller names: none, or one holding any source.
UpdateCitationsStart(w, id) ==
    /\ Free(w)
    /\ \E live \in BOOLEAN, src \in {"", srcPathOf(id)} :
          calls' = [calls EXCEPT ![w] =
                      [NoCall EXCEPT !.op = "UpdateCitations", !.id = id, !.ctx = live,
                                     !.srcPath = src,
                                     !.pc = IF src = "" THEN "done" ELSE "cit",
                                     !.result = IF src = "" THEN "nil" ELSE "none"]]
    /\ hist' = Observe(w)
    /\ UNCHANGED <<storeVars, syncVars, diskVars>>
    /\ UNCHANGED libVars

\* refs := ExtractReferences(srcPath); return if there are none; else delete
\* the paper's outgoing edges.
UpdateCitationsOver(w, lists) ==
    /\ calls[w].pc = "cit"
    /\ LET c == calls[w] IN
       \E r \in (IF c.op = "UpdateCitations" THEN lists
                 ELSE ExtractReferences(srcDir[c.id], c.id)) :
          IF Len(r) = 0
          THEN /\ calls' = [calls EXCEPT ![w] = Return(c, afterCitations(c.op, TRUE))]
               /\ UNCHANGED citations
          ELSE /\ calls' = [calls EXCEPT ![w] = [c EXCEPT !.refs = r, !.i = 1, !.pc = "cit_insert"]]
               /\ citations' = deleteCitationsFrom(citations, c.id, c.ctx)
    /\ UNCHANGED <<papers, syncState, syncVars, diskVars, hist>>
    /\ UNCHANGED libVars

UpdateCitationsExtract(w) == UpdateCitationsOver(w, RefLists)

\* if refID == paperID { continue }
isSelfCitation_Never(refID, paperID) == FALSE

isSelfCitation(refID, paperID) == refID = paperID

\* One turn of the insert loop; self-citations are skipped.
UpdateCitationsInsert(w) ==
    /\ calls[w].pc = "cit_insert"
    /\ LET c == calls[w] IN
       IF c.i > Len(c.refs)
       THEN /\ calls' = [calls EXCEPT ![w] = Return(c, afterCitations(c.op, ~c.ctx))]
            /\ UNCHANGED citations
       ELSE /\ calls' = [calls EXCEPT ![w].i = c.i + 1]
            /\ citations' = IF isSelfCitation(c.refs[c.i], c.id) THEN citations
                            ELSE firstOrCreate(citations, c.id, c.refs[c.i], c.ctx)
    /\ UNCHANGED <<papers, syncState, syncVars, diskVars, hist>>
    /\ UNCHANGED libVars

\* ------------------------------------------------------- Fetch, FetchBatch
\* Paper as the Atom API entry gives it.
FetchedPaper ==
    [present |-> TRUE, title |-> "api", pdf_path |-> "", pdf_downloaded |-> FALSE,
     src_path |-> "", src_downloaded |-> FALSE]

\* INSERT OR REPLACE INTO papers (id, created, ..., metadata_updated): the row
\* is replaced, and the columns not named take their defaults.
insertOrReplace(tbl, id, live) == IF live THEN [tbl EXCEPT ![id] = FetchedPaper] ELSE tbl

\* GetPaper: a hit returns the cached row, anything else goes to the API.
FetchStart(w, id) ==
    /\ Free(w)
    /\ \E live \in BOOLEAN :
          LET found == live /\ papers[id].present IN
          calls' = [calls EXCEPT ![w] =
                      [NoCall EXCEPT !.op = "Fetch", !.id = id, !.ctx = live,
                                     !.pc = IF found THEN "done" ELSE "fetch_get",
                                     !.result = IF found THEN "nil" ELSE "none"]]
    /\ hist' = Observe(w)
    /\ UNCHANGED <<storeVars, syncVars, diskVars>>
    /\ UNCHANGED libVars

\* fetchPaperMetadata fails, or the INSERT does.
FetchFail(w) ==
    /\ At(w, "Fetch", "fetch_get")
    /\ calls' = [calls EXCEPT ![w] = Return(Sent(calls[w]), "err_fetch")]
    /\ UNCHANGED <<storeVars, syncVars, diskVars, hist>>
    /\ UNCHANGED libVars

FetchStore(w) ==
    /\ At(w, "Fetch", "fetch_get")
    /\ calls[w].ctx
    /\ papers' = insertOrReplace(papers, calls[w].id, TRUE)
    /\ calls' = [calls EXCEPT ![w] = Return(Sent(calls[w]), "nil")]
    /\ UNCHANGED <<citations, syncState, syncVars, diskVars, hist>>
    /\ UNCHANGED libVars

\* FetchBatch(ids): the ids GetPaper does not return are asked of the API.
FetchBatchStart(w, ids) ==
    /\ Free(w)
    /\ ids # {}
    /\ \E live \in BOOLEAN :
          LET miss == {id \in ids : ~(live /\ papers[id].present)}
              first == CHOOSE id \in ids : TRUE IN
          calls' = [calls EXCEPT ![w] =
                      [NoCall EXCEPT !.op = "FetchBatch", !.id = first, !.ctx = live,
                                     !.missing = miss,
                                     !.pc = IF miss = {} THEN "done" ELSE "batch_get",
                                     !.result = IF miss = {} THEN "nil" ELSE "none"]]
    /\ hist' = Observe(w)
    /\ UNCHANGED <<storeVars, syncVars, diskVars>>
    /\ UNCHANGED libVars

FetchBatchGetFail(w) ==
    /\ At(w, "FetchBatch", "batch_get")
    /\ calls' = [calls EXCEPT ![w] = Return(Sent(calls[w]), "err_fetch")]
    /\ UNCHANGED <<storeVars, syncVars, diskVars, hist>>
    /\ UNCHANGED libVars

FetchBatchGetOk(w) ==
    /\ At(w, "FetchBatch", "batch_get")
    /\ calls[w].ctx
    /\ calls' = [calls EXCEPT ![w] = [Sent(calls[w]) EXCEPT !.pc = "batch_store"]]
    /\ UNCHANGED <<storeVars, syncVars, diskVars, hist>>
    /\ UNCHANGED libVars

\* One feed entry is stored; a failed INSERT only leaves it out of the result.
FetchBatchStore(w) ==
    /\ At(w, "FetchBatch", "batch_store")
    /\ LET c == calls[w] IN
       IF c.missing = {}
       THEN /\ calls' = [calls EXCEPT ![w] = Return(c, "nil")]
            /\ UNCHANGED papers
       ELSE \E id \in c.missing :
               /\ papers' = insertOrReplace(papers, id, c.ctx)
               /\ calls' = [calls EXCEPT ![w].missing = c.missing \ {id}]
    /\ UNCHANGED <<citations, syncState, syncVars, diskVars, hist>>
    /\ UNCHANGED libVars

\* --------------------------------------------------------- next-state, callers
\* The steps of a running DownloadPaper or Fetch call of caller w.
DownloadSteps(w) ==
    \/ Cancel(w)
    \/ DownloadPDFStat(w)
    \/ DownloadPDFGetFail(w)
    \/ DownloadPDFCreate(w)
    \/ DownloadPDFCopyOk(w)
    \/ DownloadPDFCopyFail(w)
    \/ DownloadPDFUpdate(w)
    \/ DownloadSourceStat(w)
    \/ DownloadSourceGetFail(w)
    \/ DownloadSourceGetOk(w)
    \/ ExtractSourceBegin(w)
    \/ ExtractSourceEnd(w)
    \/ DownloadSourceUpdate(w)
    \/ UpdateCitationsExtract(w)
    \/ UpdateCitationsInsert(w)
    \/ FetchFail(w)
    \/ FetchStore(w)

\* The steps of a running FetchBatch call of caller w.
IndexSteps(w) ==
    \/ FetchBatchGetFail(w)
    \/ FetchBatchGetOk(w)
    \/ FetchBatchStore(w)

\* DownloadPaper and Fetch by caller w, for the papers in P.
NextDownload(w, P) ==
    \/ \E id \in P : DownloadPaperStart(w, id)
    \/ \E id \in P : FetchStart(w, id)
    \/ DownloadSteps(w)

\* Re-indexing and batch fetches by caller w.
NextIndex(w, P) ==
    \/ \E id \in P : UpdateCitationsStart(w, id)
    \/ \E ids \in SUBSET P : FetchBatchStart(w, ids)
    \/ IndexSteps(w)

\* ------------------------------------------------------------------ GetPaper
\* GetPaper(ctx, id): one SELECT on the papers table; the row comes back,
\* or the error of a cancelled context or of a missing row.  Nothing else
\* is read or written.
GetPaper(w, id) ==
    /\ Free(w)
    /\ \E live \in BOOLEAN :
          LET found == live /\ papers[id].present IN
          calls' = [calls EXCEPT ![w] =
                      [NoCall EXCEPT !.op = "GetPaper", !.id = id, !.ctx = live,
                                     !.pc = "done",
                                     !.paper = IF found THEN papers[id] ELSE NoRow,
                                     !.result = IF found THEN "nil" ELSE "err_get"]]
    /\ hist' = Observe(w)
    /\ UNCHANGED <<storeVars, syncVars, diskVars>>
    /\ UNCHANGED libVars

\* ------------------------------------------------------------------ extractSource
\* Paths and entry names are sequences of components; a leading "" is the
\* root, so <<"", "etc", "passwd">> is /etc/passwd.
MaxEntries == 2

\* io.CopyN's limit: 100*1024*1024 bytes per extracted file.
MaxFileBytes == 104857600

\* The directory an archive is extracted into, and what exists before.
dstDir == <<"", "cache", "p1">>
Preexisting == {[path |-> <<"">>, from |-> 0], [path |-> <<"", "cache">>, from |-> 0]}

RECURSIVE cleanParts(_, _, _)
cleanParts(parts, out, rooted) ==
    IF parts = <<>> THEN out
    ELSE LET c == Head(parts)
             r == Tail(parts)
         IN  IF c \in {"", "."} THEN cleanParts(r, out, rooted)
             ELSE IF c = ".."
                  THEN IF out # <<>> /\ out[Len(out)] # ".."
                       THEN cleanParts(r, SubSeq(out, 1, Len(out) - 1), rooted)
                       ELSE IF rooted THEN cleanParts(r, out, rooted)
                            ELSE cleanParts(r, Append(out, ".."), rooted)
                  ELSE cleanParts(r, Append(out, c), rooted)

\* filepath.Clean: the shortest lexically equivalent path.
Clean(name) ==
    LET rooted == name # <<>> /\ name[1] = ""
        out == cleanParts(name, <<>>, rooted)
    IN  IF rooted THEN <<"">> \o out
        ELSE IF out = <<>> THEN <<".">> ELSE out

\* filepath.Join: the elements put one after the other, then cleaned.
Join(dir, name) == Clean(dir \o name)

\* filepath.Dir of a cleaned path.
Dir(path) == SubSeq(path, 1, Len(path) - 1)

\* strings.HasPrefix(name, ".."): the text of the name starts with two
\* dots; "..rc" is the one component here, besides "..", that does.
hasDotDotPrefix_Never(name) == FALSE

hasDotDotPrefix(name) == name # <<>> /\ name[1] \in {"..", "..rc"}

\* Whether a path lies in the destination directory.
Within(path) ==
    Len(path) >= Len(dstDir) /\ SubSeq(path, 1, Len(dstDir)) = dstDir

\* os.MkdirAll(path) on behalf of entry k: every missing ancestor is made.
MkdirAll(dirs, path, k) ==
    dirs \cup {[path |-> SubSeq(path, 1, n), from |-> k] :
                 n \in {m \in 1..Len(path) :
                          \A d \in dirs : d.path # SubSeq(path, 1, m)}}

\* MkdirAll fails when an ancestor (or the path) is a regular file.
MkdirAllFails(files, path) ==
    \E f \in files : \E n \in 1..Len(path) : f.path = SubSeq(path, 1, n)

\* os.Create fails on a directory.
CreateFails(dirs, path) == \E d \in dirs : d.path = path

\* io.CopyN(outFile, tr, MaxFileBytes): what lands in the file.
CopyN(size) == IF size < MaxFileBytes THEN size ELSE MaxFileBytes

\* The archive entries tried.
Entries ==
    { [name |-> <<"a.tex">>, type |-> "reg", size |-> 10],
      [name |-> <<"sub", "b.bib">>, type |-> "reg", size |-> 10],
      [name |-> <<"figs">>, type |-> "dir", size |-> 0],
      [name |-> <<"figs">>, type |-> "reg", size |-> 10],
      [name |-> <<"..", "..", "etc", "passwd">>, type |-> "reg", size |-> 10],
      [name |-> <<"sub", "..", "..", "x">>, type |-> "reg", size |-> 10],
      [name |-> <<"..", "d">>, type |-> "dir", size |-> 0],
      [name |-> <<"..rc">>, type |-> "reg", size |-> 10],
      [name |-> <<"", "etc", "passwd">>, type |-> "reg", size |-> 10],
      [name |-> <<"l">>, type |-> "link", size |-> 0],
      [name |-> <<"max.dat">>, type |-> "reg", size |-> MaxFileBytes],
      [name |-> <<"big.dat">>, type |-> "reg", size |-> MaxFileBytes + 1] }

Archives == UNION {[1..n -> Entries] : n \in 0..MaxEntries}

\* The payloads tried: gzip says whether gzip.NewReader accepts the file,
\* bad is the number of the tar header that cannot be read (0: none, the
\* stream ends with a clean EOF), raw is the payload's length in bytes.
Payloads ==
    {[gzip |-> FALSE, entries |-> <<>>, bad |-> 0, raw |-> 20]}
    \cup {[gzip |-> TRUE, entries |-> a, bad |-> b, raw |-> 20] :
            a \in Archives, b \in 0..MaxEntries + 1}

ExIdle ==
    [pc |-> "idle", payload |-> [gzip |-> FALSE, entries |-> <<>>, bad |-> 0, raw |-> 20],
     i |-> 1, files |-> {}, dirs |-> Preexisting, err |-> "none", result |-> "none"]

\* downloadSource has copied the response body p into the temp file and is
\* about to call extractSource(tmpPath, srcDir); srcDir does not exist.
downloadSourceTemp(p) ==
    /\ ex.pc = "idle"
    /\ p.bad <= Len(p.entries) + 1
    /\ ex' = [ExIdle EXCEPT !.pc = "open", !.payload = p]
    /\ UNCHANGED <<storeVars, syncVars, diskVars, workVars, lruVars, moreVars>>

\* os.Open, gzip.NewReader, os.MkdirAll(dstDir).
extractSourceOpen ==
    /\ ex.pc = "open"
    /\ ex' = IF ex.payload.gzip
             THEN [ex EXCEPT !.pc = "next", !.dirs = MkdirAll(ex.dirs, dstDir, 0)]
             ELSE [ex EXCEPT !.pc = "fallback", !.err = "err"]
    /\ UNCHANGED <<storeVars, syncVars, diskVars, workVars, lruVars, moreVars>>

\* tr.Next() returns io.EOF: extractSource and downloadSource return nil.
extractSourceEOF ==
    /\ ex.pc = "next"
    /\ ex.i # ex.payload.bad
    /\ ex.i > Len(ex.payload.entries)
    /\ ex' = [ex EXCEPT !.pc = "done", !.err = "nil", !.result = "nil"]
    /\ UNCHANGED <<storeVars, syncVars, diskVars, workVars, lruVars, moreVars>>

\* tr.Next() returns another error: extractSource returns it.
extractSourceBadHeader ==
    /\ ex.pc = "next"
    /\ ex.i = ex.payload.bad
    /\ ex' = [ex EXCEPT !.pc = "fallback", !.err = "err"]
    /\ UNCHANGED <<storeVars, syncVars, diskVars, workVars, lruVars, moreVars>>

\* One turn of the loop on entry ex.i.
extractEntry(x) ==
    LET hdr == x.payload.entries[x.i]
        name == Clean(hdr.name)
        target == Join(dstDir, name)
        failed == [x EXCEPT !.pc = "fallback", !.err = "err"]
    IN  IF hasDotDotPrefix(name) THEN [x EXCEPT !.i = x.i + 1]
        ELSE IF hdr.type = "dir"
        THEN IF MkdirAllFails(x.files, target) THEN failed
             ELSE [x EXCEPT !.i = x.i + 1, !.dirs = MkdirAll(x.dirs, target, x.i)]
        ELSE IF hdr.type = "reg"
        THEN IF MkdirAllFails(x.files, Dir(target)) THEN failed
             ELSE LET made == MkdirAll(x.dirs, Dir(target), x.i)
                  IN  IF CreateFails(made, target) THEN [failed EXCEPT !.dirs = made]
                      ELSE [x EXCEPT !.i = x.i + 1,
                                     !.dirs = made,
                                     !.files = {f \in x.files : f.path # target}
                                               \cup {[path |-> target, from |-> x.i,
                                                      bytes |-> CopyN(hdr.size)]}]
        ELSE [x EXCEPT !.i = x.i + 1]

extractSourceEntry ==
    /\ ex.pc = "next"
    /\ ex.i # ex.payload.bad
    /\ ex.i <= Len(ex.payload.entries)
    /\ ex' = extractEntry(ex)
    /\ UNCHANGED <<storeVars, syncVars, diskVars, workVars, lruVars, moreVars>>

\* extractSource failed: MkdirAll(srcDir), ReadFile(tmpPath),
\* WriteFile(srcDir/main.tex, data); downloadSource returns srcDir, nil.
downloadSourceFallback ==
    /\ ex.pc = "fallback"
    /\ ex' = [ex EXCEPT !.pc = "done",
                        !.result = "nil",
                        !.dirs = MkdirAll(ex.dirs, dstDir, 0),
                        !.files = {f \in ex.files : f.path # Join(dstDir, <<"main.tex">>)}
                                  \cup {[path |-> Join(dstDir, <<"main.tex">>), from |-> 0,
                                         bytes |-> ex.payload.raw]}]
    /\ UNCHANGED <<storeVars, syncVars, diskVars, workVars, lruVars, moreVars>>

\* One source payload of any shape, run to the end.
NextExtract ==
    \/ \E p \in Payloads : downloadSourceTemp(p)
    \/ extractSourceOpen
    \/ extractSourceEOF
    \/ extractSourceBadHeader
    \/ extractSourceEntry
    \/ downloadSourceFallback

\* ------------------------------------------------------------------ LRUCache
MaxLruOps == 6

\* NewLRUCache's capacity when the one asked for is not positive.
DefaultCapacity == 500000

\* Open's lruSize.
lruSize == 500000

Keys == {"A", "B", "C", "D", "E"}
LruValues == {"v1", "v2"}
LruCallers == {"g1", "g2"}
Capacities == {0, 2, 3}

\* cache is the key set of the map, list the entries, front first.
NewLRUCache(capacity) ==
    [capacity |-> IF capacity <= 0 THEN DefaultCapacity ELSE capacity,
     cache |-> {},
     list |-> <<>>]

\* container/list by key: the element of key k is the first entry with it.
ListKeys(list) == {list[i].key : i \in 1..Len(list)}
ElemOf(list, k) == CHOOSE i \in 1..Len(list) : list[i].key = k /\ \A j \in 1..(i - 1) : list[j].key # k
Remove(list, k) ==
    IF k \in ListKeys(list)
    THEN LET i == ElemOf(list, k)
         IN  SubSeq(list, 1, i - 1) \o SubSeq(list, i + 1, Len(list))
    ELSE list
PushFront(list, e) == <<e>> \o list
MoveToFront_Stay(list, k) == list

MoveToFront(list, k) ==
    IF k \in ListKeys(list)
    THEN PushFront(Remove(list, k), list[ElemOf(list, k)])
    ELSE list
SetValue(list, k, v) ==
    IF k \in ListKeys(list)
    THEN [list EXCEPT ![ElemOf(list, k)].value = v]
    ELSE list

\* sync.RWMutex: who holds it for writing, who for reading.
NoLock == [writers |-> {}, readers |-> {}]
canLock_Unguarded(m) == TRUE

canLock(m) == m.writers = {} /\ m.readers = {}
canRLock(m) == m.writers = {}

\* What a call returns: Get's value ("miss" for nil, false), Size's count;
\* evicted is the key Put removed to make room.
NoRet == [val |-> "none", size |-> 0, evicted |-> "none"]
NoLruCall == [pc |-> "idle", op |-> "none", key |-> "none", value |-> "none",
              ret |-> NoRet, want |-> NoRet]

\* The reference: each key's value and the time of its most recent Put or
\* successful Get (0: not held); Put on a full cache drops the key whose
\* time is oldest.
NewRef(capacity) ==
    [capacity |-> IF capacity <= 0 THEN DefaultCapacity ELSE capacity,
     stamp |-> [k \in Keys |-> 0],
     val |-> [k \in Keys |-> "none"],
     clock |-> 0]
RefHeld(r) == {k \in Keys : r.stamp[k] > 0}
RefOldest(r) == CHOOSE k \in RefHeld(r) : \A j \in RefHeld(r) : r.stamp[k] <= r.stamp[j]
RefEvicts(r, op, k) ==
    op = "Put" /\ k \notin RefHeld(r) /\ Cardinality(RefHeld(r)) >= r.capacity
RefApply(r, op, k, v) ==
    LET t == r.clock + 1
        c == [r EXCEPT !.clock = t]
    IN  IF op = "Get"
        THEN IF k \in RefHeld(r) THEN [c EXCEPT !.stamp[k] = t] ELSE c
        ELSE IF op = "Put"
        THEN IF RefEvicts(r, op, k)
             THEN [c EXCEPT !.stamp[RefOldest(r)] = 0, !.val[RefOldest(r)] = "none",
                            !.stamp[k] = t, !.val[k] = v]
             ELSE [c EXCEPT !.stamp[k] = t, !.val[k] = v]
        ELSE IF op = "Delete"
        THEN [c EXCEPT !.stamp[k] = 0, !.val[k] = "none"]
        ELSE IF op = "Clear"
        THEN [c EXCEPT !.stamp = [j \in Keys |-> 0], !.val = [j \in Keys |-> "none"]]
        ELSE c
RefRet(r, op, k) ==
    [val |-> IF op = "Get" THEN (IF k \in RefHeld(r) THEN r.val[k] ELSE "miss") ELSE "none",
     size |-> IF op = "Size" THEN Cardinality(RefHeld(r)) ELSE 0,
     evicted |-> IF RefEvicts(r, op, k) THEN RefOldest(r) ELSE "none"]

lruFrame == <<storeVars, syncVars, diskVars, workVars, ex, moreVars>>

\* NewLRUCache(capacity) for a cache of its own, before any call on it.
LruNew(capacity) ==
    /\ lruRef.clock = 0
    /\ \A g \in LruCallers : lruCalls[g].pc = "idle"
    /\ paperLRU' = NewLRUCache(capacity)
    /\ lruRef' = NewRef(capacity)
    /\ UNCHANGED <<mu, lruCalls, lruFrame>>

\* Caller g calls Get, Put, Delete, Clear or Size.
LruCall(g, op, k, v) ==
    /\ lruCalls[g].pc = "idle"
    /\ lruRef.clock + Cardinality({h \in LruCallers : lruCalls[h].pc = "lock"}) < MaxLruOps
    /\ lruCalls' = [lruCalls EXCEPT ![g] = [NoLruCall EXCEPT !.pc = "lock", !.op = op,
                                                          !.key = k, !.value = v]]
    /\ UNCHANGED <<paperLRU, lruRef, mu, lruFrame>>

\* lru.mu.Lock() returns; the reference takes the call at this point.
LruLock(g) ==
    LET c == lruCalls[g] IN
    /\ c.pc = "lock"
    /\ c.op # "Size"
    /\ canLock(mu)
    /\ mu' = [mu EXCEPT !.writers = @ \cup {g}]
    /\ lruRef' = RefApply(lruRef, c.op, c.key, c.value)
    /\ lruCalls' = [lruCalls EXCEPT ![g].pc = c.op,
                                    ![g].want = RefRet(lruRef, c.op, c.key)]
    /\ UNCHANGED <<paperLRU, lruFrame>>

\* lru.mu.RLock() returns (Size).
LruRLock(g) ==
    LET c == lruCalls[g] IN
    /\ c.pc = "lock"
    /\ c.op = "Size"
    /\ canRLock(mu)
    /\ mu' = [mu EXCEPT !.readers = @ \cup {g}]
    /\ lruRef' = RefApply(lruRef, c.op, c.key, c.value)
    /\ lruCalls' = [lruCalls EXCEPT ![g].pc = "Size",
                                    ![g].want = RefRet(lruRef, c.op, c.key)]
    /\ UNCHANGED <<paperLRU, lruFrame>>

\* Get: elem, ok := lru.cache[key].
LruGetLookup(g) ==
    LET c == lruCalls[g] IN
    /\ c.pc = "Get"
    /\ lruCalls' = [lruCalls EXCEPT
                      ![g].pc = IF c.key \in paperLRU.cache THEN "GetMove" ELSE "unlock",
                      ![g].ret.val = IF c.key \in paperLRU.cache THEN "none" ELSE "miss"]
    /\ UNCHANGED <<paperLRU, lruRef, mu, lruFrame>>

\* Get on a hit: MoveToFront(elem), return the entry's value.
LruGetMove(g) ==
    LET c == lruCalls[g] IN
    /\ c.pc = "GetMove"
    /\ paperLRU' = [paperLRU EXCEPT !.list = MoveToFront(@, c.key)]
    /\ lruCalls' = [lruCalls EXCEPT
                      ![g].pc = "unlock",
                      ![g].ret.val = IF c.key \in ListKeys(paperLRU.list)
                                     THEN paperLRU.list[ElemOf(paperLRU.list, c.key)].value
                                     ELSE "miss"]
    /\ UNCHANGED <<lruRef, mu, lruFrame>>

\* Put: elem, ok := lru.cache[key].
LruPutLookup(g) ==
    LET c == lruCalls[g] IN
    /\ c.pc = "Put"
    /\ lruCalls' = [lruCalls EXCEPT
                      ![g].pc = IF c.key \in paperLRU.cache THEN "PutUpdate" ELSE "PutEvict"]
    /\ UNCHANGED <<paperLRU, lruRef, mu, lruFrame>>

\* Put on an existing key: new value, MoveToFront, return.
LruPutUpdate(g) ==
    LET c == lruCalls[g] IN
    /\ c.pc = "PutUpdate"
    /\ paperLRU' = [paperLRU EXCEPT !.list = MoveToFront(SetValue(@, c.key, c.value), c.key)]
    /\ lruCalls' = [lruCalls EXCEPT ![g].pc = "unlock"]
    /\ UNCHANGED <<lruRef, mu, lruFrame>>

\* Put on a new key: when list.Len() >= capacity, drop list.Back().
LruPutEvict_Never(g) ==
    LET c == lruCalls[g] IN
    /\ c.pc = "PutEvict"
    /\ lruCalls' = [lruCalls EXCEPT ![g].pc = "PutPush", ![g].ret.evicted = "none"]
    /\ UNCHANGED <<paperLRU, lruRef, mu, lruFrame>>

LruPutEvict(g) ==
    LET c == lruCalls[g]
        l == paperLRU.list
        full == Len(l) >= paperLRU.capacity /\ Len(l) > 0
        back == l[Len(l)].key
    IN
    /\ c.pc = "PutEvict"
    /\ paperLRU' = IF full
                   THEN [paperLRU EXCEPT !.cache = @ \ {back},
                                         !.list = SubSeq(l, 1, Len(l) - 1)]
                   ELSE paperLRU
    /\ lruCalls' = [lruCalls EXCEPT ![g].pc = "PutPush",
                                    ![g].ret.evicted = IF full THEN back ELSE "none"]
    /\ UNCHANGED <<lruRef, mu, lruFrame>>

\* Put on a new key: PushFront the entry, enter it in the map.
LruPutPush(g) ==
    LET c == lruCalls[g] IN
    /\ c.pc = "PutPush"
    /\ paperLRU' = [paperLRU EXCEPT
                      !.list = PushFront(@, [key |-> c.key, value |-> c.value]),
                      !.cache = @ \cup {c.key}]
    /\ lruCalls' = [lruCalls EXCEPT ![g].pc = "unlock"]
    /\ UNCHANGED <<lruRef, mu, lruFrame>>

\* Delete's body.
LruDelete(g) ==
    LET c == lruCalls[g] IN
    /\ c.pc = "Delete"
    /\ paperLRU' = IF c.key \in paperLRU.cache
                   THEN [paperLRU EXCEPT !.cache = @ \ {c.key}, !.list = Remove(@, c.key)]
                   ELSE paperLRU
    /\ lruCalls' = [lruCalls EXCEPT ![g].pc = "unlock"]
    /\ UNCHANGED <<lruRef, mu, lruFrame>>

\* Clear's body.
LruClear(g) ==
    LET c == lruCalls[g] IN
    /\ c.pc = "Clear"
    /\ paperLRU' = [paperLRU EXCEPT !.cache = {}, !.list = <<>>]
    /\ lruCalls' = [lruCalls EXCEPT ![g].pc = "unlock"]
    /\ UNCHANGED <<lruRef, mu, lruFrame>>

\* Size's body: len(lru.cache).
LruSize(g) ==
    LET c == lruCalls[g] IN
    /\ c.pc = "Size"
    /\ lruCalls' = [lruCalls EXCEPT ![g].pc = "unlock",
                                    ![g].ret.size = Cardinality(paperLRU.cache)]
    /\ UNCHANGED <<paperLRU, lruRef, mu, lruFrame>>

\* The deferred Unlock or RUnlock; the call returns.
LruUnlock(g) ==
    /\ lruCalls[g].pc = "unlock"
    /\ mu' = [writers |-> mu.writers \ {g}, readers |-> mu.readers \ {g}]
    /\ lruCalls' = [lruCalls EXCEPT ![g] = NoLruCall]
    /\ UNCHANGED <<paperLRU, lruRef, lruFrame>>

\* Calls by the callers in G on keys in K with values in V, on the cache
\* Open made or on one made with a capacity in C.
NextLRU(G, K, V, C) ==
    \/ \E c \in C : LruNew(c)
    \/ \E g \in G :
          \/ \E op \in {"Get", "Delete"}, k \in K : LruCall(g, op, k, "none")
          \/ \E k \in K, v \in V : LruCall(g, "Put", k, v)
          \/ \E op \in {"Clear", "Size"} : LruCall(g, op, "none", "none")
          \/ LruLock(g)
          \/ LruRLock(g)
          \/ LruGetLookup(g)
          \/ LruGetMove(g)
          \/ LruPutLookup(g)
          \/ LruPutUpdate(g)
          \/ LruPutEvict(g)
          \/ LruPutPush(g)
          \/ LruDelete(g)
          \/ LruClear(g)
          \/ LruSize(g)
          \/ LruUnlock(g)

\* ------------------------------------------------------------------ DownloadCategory
\* The ids the SELECT returns: stored papers that lack an artifact asked
\* for, in the query's order, cut at limit when limit > 0.
RECURSIVE selectIds(_, _, _)
selectIds(order, tbl, o) ==
    IF order = <<>> THEN <<>>
    ELSE LET id == Head(order)
             hit == /\ tbl[id].present
                    /\ \/ o.DownloadPDF /\ ~tbl[id].pdf_downloaded
                       \/ o.DownloadSource /\ ~tbl[id].src_downloaded
         IN  (IF hit THEN <<id>> ELSE <<>>) \o selectIds(Tail(order), tbl, o)

applyLimit(ids, limit) ==
    IF limit > 0 /\ limit < Len(ids) THEN SubSeq(ids, 1, limit) ELSE ids

\* pending counts the requests sent to the remote since the run started or
\* last slept (an observation, never read by the program).
DcIdle ==
    [pc |-> "idle", opts |-> NoCall.opts, ids |-> <<>>, i |-> 1, ctx |-> TRUE,
     result |-> "none", pending |-> 0]

dcFrame == <<storeVars, syncVars, diskVars, hist, ex, lruVars, rb, pureVars>>

\* DownloadCategory(ctx, category, limit, opts) up to the end of the query.
DcStart ==
    /\ dc.pc = "idle"
    /\ Free(Bulk)
    /\ \E live \in BOOLEAN, o \in DownloadOpts, limit \in {0, 1} :
          dc' = IF live
                THEN [DcIdle EXCEPT !.pc = "loop", !.opts = o,
                                    !.ids = applyLimit(selectIds(<<"p1", "p2">>, papers, o), limit)]
                ELSE [DcIdle EXCEPT !.pc = "done", !.ctx = FALSE, !.result = "query_err"]
    /\ UNCHANGED <<calls, dcFrame>>

\* The caller cancels the context between two downloads.
DcCancel ==
    /\ dc.pc \in {"loop", "sleep"}
    /\ dc.ctx
    /\ dc' = [dc EXCEPT !.ctx = FALSE]
    /\ UNCHANGED <<calls, dcFrame>>

\* Top of the loop: the range ends, or ctx.Done() is checked.
DcCheckCtx ==
    /\ dc.pc = "loop"
    /\ dc' = IF dc.i > Len(dc.ids) THEN [dc EXCEPT !.pc = "done", !.result = "nil"]
             ELSE IF ~dc.ctx THEN [dc EXCEPT !.pc = "done", !.result = "ctx_err"]
             ELSE [dc EXCEPT !.pc = "call"]
    /\ calls' = [calls EXCEPT ![Bulk] = NoCall]
    /\ UNCHANGED dcFrame

\* c.DownloadPaper(ctx, id, opts) is entered.
DcCall ==
    /\ dc.pc = "call"
    /\ calls[Bulk].pc = "idle"
    /\ DownloadPaperStart(Bulk, dc.ids[dc.i])
    /\ calls'[Bulk].ctx = dc.ctx
    /\ calls'[Bulk].opts = dc.opts

\* DownloadPaper returned: on an error `continue`, else go on to the sleep.
DcReturn ==
    /\ dc.pc = "call"
    /\ calls[Bulk].pc = "done"
    /\ dc' = [dc EXCEPT !.pc = IF calls[Bulk].result = "nil" THEN "sleep" ELSE "loop",
                        !.i = IF calls[Bulk].result = "nil" THEN dc.i ELSE dc.i + 1,
                        !.ctx = calls[Bulk].ctx,
                        !.pending = dc.pending + calls[Bulk].http]
    /\ calls' = [calls EXCEPT ![Bulk] = NoCall]
    /\ UNCHANGED dcFrame

\* time.Sleep(3 * time.Second), then the next id.
DcSleep ==
    /\ dc.pc = "sleep"
    /\ dc' = [dc EXCEPT !.pc = "loop", !.i = dc.i + 1, !.pending = 0]
    /\ UNCHANGED <<calls, dcFrame>>

\* The steps of a running DownloadCategory.
DcSteps ==
    \/ DcCancel
    \/ DcCheckCtx
    \/ DcCall
    \/ DcReturn
    \/ DcSleep
    \/ DownloadSteps(Bulk)

\* ------------------------------------------------------------------ RebuildAllCitations
\* DELETE FROM citations; its error is not looked at.
deleteAllCitations(tbl, live) == IF live THEN EmptyBag ELSE tbl

\* The rows Find returns: src_downloaded = true AND src_path IS NOT NULL.
RECURSIVE withSource(_, _)
withSource(order, tbl) ==
    IF order = <<>> THEN <<>>
    ELSE LET id == Head(order)
         IN  (IF tbl[id].present /\ tbl[id].src_downloaded
              THEN <<[id |-> id, src_path |-> tbl[id].src_path]>> ELSE <<>>)
             \o withSource(Tail(order), tbl)

\* before is the table when the run started and seen what ExtractReferences
\* returned for each paper of the run (observations, never read by the program).
RbIdle ==
    [pc |-> "idle", ctx |-> TRUE, found |-> <<>>, i |-> 1, result |-> "none",
     before |-> EmptyBag, seen |-> [p \in PaperIDs |-> <<>>]]

rbFrame == <<syncVars, diskVars, hist, ex, lruVars, dc, pureVars>>

\* RebuildAllCitations(ctx) is entered and clears the table.
RbStart ==
    /\ rb.pc = "idle"
    /\ Free(Reindexer)
    /\ \E live \in BOOLEAN :
          /\ rb' = [RbIdle EXCEPT !.pc = "find", !.ctx = live, !.before = citations]
          /\ citations' = deleteAllCitations(citations, live)
    /\ UNCHANGED <<papers, syncState, calls, rbFrame>>

\* The caller cancels the context between two steps of the run.
RbCancel ==
    /\ rb.pc \in {"find", "loop"}
    /\ rb.ctx
    /\ rb' = [rb EXCEPT !.ctx = FALSE]
    /\ UNCHANGED <<storeVars, calls, rbFrame>>

\* Find(&papers): its error is returned.
RbFind ==
    /\ rb.pc = "find"
    /\ rb' = IF rb.ctx
             THEN [rb EXCEPT !.pc = "loop", !.found = withSource(<<"p1", "p2">>, papers)]
             ELSE [rb EXCEPT !.pc = "done", !.result = "find_err"]
    /\ UNCHANGED <<storeVars, calls, rbFrame>>

\* for _, p := range papers: c.UpdateCitations(ctx, p.ID, p.SourcePath) is
\* entered, or the range has ended and nil is returned.
RbNext ==
    /\ rb.pc = "loop"
    /\ IF rb.i > Len(rb.found)
       THEN /\ rb' = [rb EXCEPT !.pc = "done", !.result = "nil"]
            /\ UNCHANGED calls
       ELSE LET p == rb.found[rb.i] IN
            /\ rb' = [rb EXCEPT !.pc = "call"]
            /\ calls' = [calls EXCEPT ![Reindexer] =
                           [NoCall EXCEPT !.op = "RebuildAllCitations", !.id = p.id,
                                          !.ctx = rb.ctx, !.srcPath = p.src_path,
                                          !.pc = IF p.src_path = "" THEN "done" ELSE "cit",
                                          !.result = IF p.src_path = "" THEN "nil" ELSE "none"]]
    /\ UNCHANGED <<storeVars, rbFrame>>

\* UpdateCitations returned (it only ever returns nil): the next paper.
RbReturn ==
    /\ rb.pc = "call"
    /\ calls[Reindexer].pc = "done"
    /\ rb' = [rb EXCEPT !.pc = "loop", !.i = rb.i + 1, !.ctx = calls[Reindexer].ctx,
                        !.seen[calls[Reindexer].id] = calls[Reindexer].refs]
    /\ calls' = [calls EXCEPT ![Reindexer] = NoCall]
    /\ UNCHANGED <<storeVars, rbFrame>>

\* The steps of a running RebuildAllCitations.
RbSteps ==
    \/ RbCancel
    \/ RbFind
    \/ RbNext
    \/ RbReturn
    \/ UpdateCitationsExtract(Reindexer)
    \/ UpdateCitationsInsert(Reindexer)
    \/ Cancel(Reindexer)

\* ------------------------------------------------------------------ ExtractReferences
\* Text is a sequence of one-character strings, so that what the patterns
\* capture and what normalizeArxivID strips are computed on the characters.
Digits == {"0", "1", "2", "3", "4", "5", "6", "7", "8", "9"}
Lower == {"a", "b", "c", "d", "e", "f", "g", "h", "i", "j", "k", "l", "m",
          "n", "o", "p", "q", "r", "s", "t", "u", "v", "w", "x", "y", "z"}
Upper == {"A", "B", "C", "D", "E", "F", "G", "H", "I", "J", "K", "L", "M",
          "N", "O", "P", "Q", "R", "S", "T", "U", "V", "W", "X", "Y", "Z"}

AllIn(s, cls) == \A k \in 1..Len(s) : s[k] \in cls

\* strings.LastIndex(s, c), one-based; 0 when c does not occur.
LastIndex(s, c) ==
    IF \E k \in 1..Len(s) : s[k] = c
    THEN CHOOSE k \in 1..Len(s) : s[k] = c /\ \A j \in (k + 1)..Len(s) : s[j] # c
    ELSE 0

\* normalizeArxivID: with a "v" past the first byte and only digits, at least
\* one, after the last "v", the id up to that "v"; otherwise the id.
normalizeArxivID(id) ==
    LET idx == LastIndex(id, "v")
        suffix == SubSeq(id, idx + 1, Len(id))
    IN  IF idx > 1 /\ AllIn(suffix, Digits) /\ Len(suffix) > 0
        THEN SubSeq(id, 1, idx - 1)
        ELSE id

\* The identifiers of the inputs.
IdNew == <<"2", "3", "0", "1", ".", "0", "0", "0", "0", "1">>
IdNew2 == <<"1", "3", "0", "8", ".", "0", "8", "5", "0">>
IdOld == <<"h", "e", "p", "-", "t", "h", "/", "9", "9", "0", "1", "0", "0", "1">>
IdSolv == <<"s", "o", "l", "v", "-", "i", "n", "t", "/", "9", "9", "0", "1", "0", "0", "1">>
IdCs == <<"c", "s", "/", "0", "0", "0", "1", "0", "0", "1">>
IdSub == <<"c", "s", ".", "L", "G", "/", "0", "0", "0", "1", "0", "0", "1">>
NoVer == <<>>
Ver3 == <<"v", "3">>
VerUpper3 == <<"V", "3">>

\* \d{4}\.\d{4,5}
IsNewFormat(id) ==
    /\ Len(id) \in {9, 10}
    /\ AllIn(SubSeq(id, 1, 4), Digits)
    /\ id[5] = "."
    /\ AllIn(SubSeq(id, 6, Len(id)), Digits)

\* The archive of archive/NNNNNNN, or <<>> when the id has not that shape.
Archive(id) ==
    IF /\ Len(id) > 8
       /\ id[Len(id) - 7] = "/"
       /\ AllIn(SubSeq(id, Len(id) - 6, Len(id)), Digits)
    THEN SubSeq(id, 1, Len(id) - 8)
    ELSE <<>>

\* (?i)[a-z-]+/\d{7}
IsOldFormat(id) == Archive(id) # <<>> /\ AllIn(Archive(id), Lower \cup Upper \cup {"-"})

\* [a-z]+-[a-z]+/\d{7}
IsHyphenated(id) ==
    LET a == Archive(id)
    IN  \E h \in 2..(Len(a) - 1) :
           /\ a[h] = "-"
           /\ AllIn(SubSeq(a, 1, h - 1), Lower)
           /\ AllIn(SubSeq(a, h + 1, Len(a)), Lower)

\* (?:cs|math|astro-ph|gr-qc|nlin|nucl-ex|nucl-th|physics|q-bio|q-fin|stat)/\d{7},
\* of which the inputs use cs and math.
IsSingleCategory(id) ==
    Archive(id) \in {<<"c", "s">>, <<"m", "a", "t", "h">>,
                     <<"g", "r", "-", "q", "c">>, <<"s", "t", "a", "t">>,
                     <<"n", "l", "i", "n">>}

\* (?i)[a-z]+\.[A-Z]{2}/\d{7}
IsSubcategory(id) ==
    LET a == Archive(id)
    IN  /\ Len(a) > 3
        /\ a[Len(a) - 2] = "."
        /\ AllIn(SubSeq(a, 1, Len(a) - 3), Lower \cup Upper)
        /\ AllIn(SubSeq(a, Len(a) - 1, Len(a)), Lower \cup Upper)

\* What (?:v\d+)? takes of the text after the id: under (?i) the "v" matches
\* either case.
versionTaken(ver, foldCase) ==
    IF /\ Len(ver) > 1
       /\ ver[1] \in (IF foldCase THEN {"v", "V"} ELSE {"v"})
       /\ AllIn(Tail(ver), Digits)
    THEN ver
    ELSE <<>>

\* A line holds one mention: what precedes the id, the id, what follows it.
PreColon == "arXiv:"
PreColonUpper == "ARXIV:"
PrePreprint == "arXiv preprint arXiv:"
PreAbs == "arxiv.org/abs/"
PrePdf == "arxiv.org/pdf/"
PreEscaped == "ar{X}iv:{\\tt "
PreEprint == "eprint = {"
PreBare == "see "

\* (?i)arXiv[:\s]+ is followed by the id.
afterArxivColon(pre) == pre \in {PreColon, PreColonUpper, PrePreprint}
\* ar.{0,5}iv.{0,20} (case-sensitive) is followed by the id.
afterEscaped(pre) == pre \in {PreColon, PrePreprint, PreAbs, PrePdf, PreEscaped}
\* \b after the seven digits: the next byte is no word byte.
wordEnds(line) == line.ver = <<>>

\* arxivIDPatterns[k] on a line: the captures m[1] of its matches.
patternMatches(k, line) ==
    LET id == line.id
        withVer(fold) == <<id \o versionTaken(line.ver, fold)>>
    IN  CASE k = 1 -> IF afterArxivColon(line.pre) /\ IsNewFormat(id) THEN withVer(TRUE) ELSE <<>>
          [] k = 2 -> IF line.pre = PrePreprint /\ IsNewFormat(id) THEN withVer(TRUE) ELSE <<>>
          [] k = 3 -> IF line.pre = PreAbs /\ IsNewFormat(id) THEN withVer(TRUE) ELSE <<>>
          [] k = 4 -> IF line.pre = PrePdf /\ IsNewFormat(id) THEN withVer(TRUE) ELSE <<>>
          [] k = 5 -> IF afterArxivColon(line.pre) /\ IsOldFormat(id) THEN withVer(TRUE) ELSE <<>>
          [] k = 6 -> IF line.pre = PreAbs /\ IsOldFormat(id) THEN withVer(TRUE) ELSE <<>>
          [] k = 7 -> IF afterEscaped(line.pre) /\ IsNewFormat(id) THEN <<id>> ELSE <<>>
          [] k = 8 -> IF line.pre = PreEprint /\ IsNewFormat(id) THEN withVer(FALSE) ELSE <<>>
          [] k = 9 -> IF IsHyphenated(id) /\ wordEnds(line) THEN <<id>> ELSE <<>>
          [] k = 10 -> IF IsSingleCategory(id) /\ wordEnds(line) THEN <<id>> ELSE <<>>
          [] k = 11 -> IF IsSubcategory(id) /\ wordEnds(line) THEN <<id>> ELSE <<>>

NumPatterns == 11

RECURSIVE allPatterns(_, _)
allPatterns(k, line) ==
    IF k > NumPatterns THEN <<>> ELSE patternMatches(k, line) \o allPatterns(k + 1, line)

\* extractFromFile: line by line, pattern by pattern.
RECURSIVE extractFromFile(_)
extractFromFile(lines) ==
    IF lines = <<>> THEN <<>>
    ELSE allPatterns(1, Head(lines)) \o extractFromFile(Tail(lines))

\* The loop over ids: normalise, skip what was seen, append.  The result is
\* the pair of seen and refs.
RECURSIVE addRefs(_, _, _)
addRefs(ids, seen, refs) ==
    IF ids = <<>> THEN [seen |-> seen, refs |-> refs]
    ELSE LET normalized == normalizeArxivID(Head(ids))
         IN  IF normalized \in seen
             THEN addRefs(Tail(ids), seen, refs)
             ELSE addRefs(Tail(ids), seen \cup {normalized}, Append(refs, normalized))

\* extractFromPDFs over one file's text: pattern by pattern over the whole text.
RECURSIVE linesOfPattern(_, _)
linesOfPattern(k, lines) ==
    IF lines = <<>> THEN <<>>
    ELSE patternMatches(k, Head(lines)) \o linesOfPattern(k, Tail(lines))

RECURSIVE textMatches(_, _)
textMatches(k, lines) ==
    IF k > NumPatterns THEN <<>> ELSE linesOfPattern(k, lines) \o textMatches(k + 1, lines)

\* The inputs: a tree is its files in walk order, a file its extension and
\* lines; MaxLines bounds the lines of a tree.
MaxLines == 2

MentionLines ==
    {[pre |-> PreColon, id |-> IdNew, ver |-> v] : v \in {NoVer, Ver3, VerUpper3}}
    \cup {[pre |-> PreAbs, id |-> IdOld, ver |-> v] : v \in {NoVer, Ver3}}
    \cup {[pre |-> PreEprint, id |-> IdNew, ver |-> v] : v \in {Ver3, VerUpper3}}
    \cup {[pre |-> PreBare, id |-> i, ver |-> NoVer] : i \in {IdOld, IdCs, IdSub, IdNew2}}
    \cup {[pre |-> PreColonUpper, id |-> IdSolv, ver |-> Ver3],
          [pre |-> PrePreprint, id |-> IdNew2, ver |-> NoVer],
          [pre |-> PrePdf, id |-> IdNew2, ver |-> Ver3],
          [pre |-> PreEscaped, id |-> IdNew2, ver |-> NoVer]}

Exts == {".bbl", ".pdf", ".txt"}
TextExts == {".bbl", ".bib", ".tex"}

LinesUpTo(n) == UNION {[1..m -> MentionLines] : m \in 1..n}
FilesUpTo(n) == {[ext |-> e, lines |-> l] : e \in Exts, l \in LinesUpTo(n)}
RECURSIVE TreesUpTo(_)
TreesUpTo(n) ==
    IF n = 0 THEN {<<>>}
    ELSE {<<>>} \cup UNION {{<<f>> \o t : t \in TreesUpTo(n - Len(f.lines))} : f \in FilesUpTo(n)}

ErIdle ==
    [pc |-> "idle", tree |-> <<>>, i |-> 1, seen |-> {}, refs |-> <<>>, pdfFiles |-> <<>>,
     fallback |-> FALSE]

erFrame == <<storeVars, syncVars, diskVars, workVars, ex, lruVars, dc, rb, cg, ix, sv>>

\* ExtractReferences(srcPath) is entered on a tree.
ErStart ==
    /\ er.pc = "idle"
    /\ \E t \in TreesUpTo(MaxLines) \ {<<>>} : er' = [ErIdle EXCEPT !.pc = "walk", !.tree = t]
    /\ UNCHANGED erFrame

\* The WalkDir callback on the next file.
ErWalk ==
    /\ er.pc = "walk"
    /\ er.i <= Len(er.tree)
    /\ LET f == er.tree[er.i]
           r == addRefs(extractFromFile(f.lines), er.seen, er.refs)
       IN  er' = CASE f.ext = ".pdf" ->
                        [er EXCEPT !.i = er.i + 1, !.pdfFiles = Append(er.pdfFiles, er.i)]
                   [] f.ext \in TextExts ->
                        [er EXCEPT !.i = er.i + 1, !.seen = r.seen, !.refs = r.refs]
                   [] OTHER -> [er EXCEPT !.i = er.i + 1]
    /\ UNCHANGED erFrame

\* The walk has ended with references, or without PDF files: refs is returned.
ErReturn ==
    /\ er.pc = "walk"
    /\ er.i > Len(er.tree)
    /\ ~(Len(er.refs) = 0 /\ Len(er.pdfFiles) > 0)
    /\ er' = [er EXCEPT !.pc = "done"]
    /\ UNCHANGED erFrame

\* The fallback enters extractFromPDFs.
ErFallback ==
    /\ er.pc = "walk"
    /\ er.i > Len(er.tree)
    /\ Len(er.refs) = 0 /\ Len(er.pdfFiles) > 0
    /\ er' = [er EXCEPT !.pc = "pdf", !.i = 1, !.fallback = TRUE]
    /\ UNCHANGED erFrame

\* extractFromPDFs on the next PDF file: pdftotext fails and the file is
\* skipped, or its text is matched.
ErPdf ==
    /\ er.pc = "pdf"
    /\ er.i <= Len(er.pdfFiles)
    /\ \E ok \in BOOLEAN :
          LET f == er.tree[er.pdfFiles[er.i]]
              r == addRefs(textMatches(1, f.lines), er.seen, er.refs)
          IN  er' = IF ok THEN [er EXCEPT !.i = er.i + 1, !.seen = r.seen, !.refs = r.refs]
                    ELSE [er EXCEPT !.i = er.i + 1]
    /\ UNCHANGED erFrame

\* extractFromPDFs returns and ExtractReferences with it.
ErPdfReturn ==
    /\ er.pc = "pdf"
    /\ er.i > Len(er.pdfFiles)
    /\ er' = [er EXCEPT !.pc = "done"]
    /\ UNCHANGED erFrame

NextRefs ==
    \/ ErStart
    \/ ErWalk
    \/ ErReturn
    \/ ErFallback
    \/ ErPdf
    \/ ErPdfReturn

\* ------------------------------------------------------------------ GetCitationGraph
\* The byte of a one-character string.
Byte(c) ==
    CASE c = "-" -> 45
      [] c = "." -> 46
      [] c = "/" -> 47
      [] c = ">" -> 62
      [] c \in Digits -> 48 + (CHOOSE d \in 0..9 : <<"0", "1", "2", "3", "4", "5", "6", "7", "8", "9">>[d + 1] = c)
      [] c \in Lower -> 97 + (CHOOSE d \in 0..25 :
                                 <<"a", "b", "c", "d", "e", "f", "g", "h", "i", "j", "k", "l", "m",
                                   "n", "o", "p", "q", "r", "s", "t", "u", "v", "w", "x", "y", "z">>[d + 1] = c)

\* Go's < on strings: byte by byte, a proper prefix first.
RECURSIVE StrLess(_, _)
StrLess(a, b) ==
    IF b = <<>> THEN FALSE
    ELSE IF a = <<>> THEN TRUE
    ELSE IF Byte(Head(a)) # Byte(Head(b)) THEN Byte(Head(a)) < Byte(Head(b))
    ELSE StrLess(Tail(a), Tail(b))

StrLeq(a, b) == a = b \/ StrLess(a, b)

\* yearFromID: the first two bytes, when between "00" and "99" as strings,
\* read as a year of 2000..2099 and moved down a century past 2090; byte
\* arithmetic wraps at 256.
yearFromID(id) ==
    IF Len(id) >= 2
    THEN LET yy == SubSeq(id, 1, 2)
         IN  IF StrLeq(<<"0", "0">>, yy) /\ StrLeq(yy, <<"9", "9">>)
             THEN LET year == 2000 + ((Byte(yy[1]) + 256 - 48) % 256) * 10
                                   + ((Byte(yy[2]) + 256 - 48) % 256)
                  IN  IF year > 2090 THEN year - 100 ELSE year
             ELSE 0
    ELSE 0

\* The identifiers of the inputs and the year of each paper's created date.
Id05 == <<"0", "5", "0", "1", ".", "1", "2", "3", "4", "5">>
Id95 == <<"9", "5", "0", "1", "0", "0", "1">>
GraphIDs == {IdNew, Id05, IdOld, Id95}
\* CitedBy(ctx, paperID, 100)
graphLimit == 100

\* More stored papers than CitedBy is asked for, all of them citing IdNew:
\* 2401.00001, 2401.00002, ...
DigitSeq == <<"0", "1", "2", "3", "4", "5", "6", "7", "8", "9">>
CiterID(n) ==
    <<"2", "4", "0", "1", ".", "0", "0">>
       \o <<DigitSeq[(n \div 100) + 1], DigitSeq[((n \div 10) % 10) + 1], DigitSeq[(n % 10) + 1]>>
Citers == {CiterID(n) : n \in 1..(graphLimit + 1)}
ManyCiters == {<<c, IdNew>> : c \in Citers} \cup {<<IdNew, IdOld>>}

CreatedYear(id) ==
    CASE id = IdNew -> 2023
      [] id = Id05 -> 2005
      [] id = IdOld -> 1999
      [] id = Id95 -> 1995
      [] OTHER -> 2024

\* papers.created as a day count: the papers of Citers were created on
\* successive days of 2024.
Created(id) ==
    IF id \in GraphIDs THEN CreatedYear(id) * 366
    ELSE CreatedYear(id) * 366 + (CHOOSE n \in 1..(graphLimit + 1) : CiterID(n) = id)

\* ORDER BY to_id DESC.
RECURSIVE byIdDesc(_)
byIdDesc(S) ==
    IF S = {} THEN <<>>
    ELSE LET m == CHOOSE x \in S : \A y \in S \ {x} : StrLess(y, x)
         IN  <<m>> \o byIdDesc(S \ {m})

\* ORDER BY papers.created DESC.
RECURSIVE byCreatedDesc(_)
byCreatedDesc(S) ==
    IF S = {} THEN <<>>
    ELSE LET m == CHOOSE x \in S : \A y \in S \ {x} : Created(y) < Created(x)
         IN  <<m>> \o byCreatedDesc(S \ {m})

\* CitedByCount: COUNT(*) WHERE to_id = ?; 0 with the error when it fails.
CitedByCount(tbl, live, id) ==
    IF live THEN Cardinality({e \in tbl : e[2] = id}) ELSE 0

\* CitedBy: citations JOIN papers ON from_id = papers.id WHERE to_id = ?,
\* ORDER BY papers.created DESC, LIMIT limit.
CitedBy_NoJoin(tbl, cached, id, limit) ==
    LET rows == byCreatedDesc({e[1] : e \in {x \in tbl : x[2] = id}})
    IN  SubSeq(rows, 1, IF Len(rows) < limit THEN Len(rows) ELSE limit)

CitedBy(tbl, cached, id, limit) ==
    LET rows == byCreatedDesc({e[1] : e \in {x \in tbl : x[2] = id /\ x[1] \in cached}})
    IN  SubSeq(rows, 1, IF Len(rows) < limit THEN Len(rows) ELSE limit)

\* References: citations LEFT JOIN papers ON to_id = papers.id WHERE
\* from_id = ?, ORDER BY to_id DESC; has_title says the paper is stored (a
\* stored paper of the inputs has a title).
References(tbl, cached, id) ==
    LET ids == byIdDesc({e[2] : e \in {x \in tbl : x[1] = id}})
    IN  [k \in 1..Len(ids) |-> [ID |-> ids[k], HasTitle |-> ids[k] \in cached]]

\* SELECT from_id, to_id FROM citations WHERE from_id IN (the references of
\* the paper) AND to_id IN (the references of the paper).
betweenReferences(tbl, id) ==
    LET out == {e[2] : e \in {x \in tbl : x[1] = id}}
    IN  {e \in tbl : e[1] \in out /\ e[2] \in out}

\* addNode: the first node stored under an id stays.
addNode_StoredOnly(nodeSet, id, node) ==
    IF id \in DOMAIN nodeSet \/ ~node.Cached THEN nodeSet ELSE nodeSet @@ (id :> node)

addNode(nodeSet, id, node) ==
    IF id \in DOMAIN nodeSet THEN nodeSet ELSE nodeSet @@ (id :> node)

\* addEdge: an edge whose key from + "->" + to is new is appended.
edgeKey(from, to) == from \o <<"-", ">">> \o to

addEdge(g, from, to) ==
    IF edgeKey(from, to) \in g.edgeSet THEN g
    ELSE [g EXCEPT !.edgeSet = g.edgeSet \cup {edgeKey(from, to)},
                   !.edges = Append(g.edges, [Source |-> from, Target |-> to])]

RECURSIVE addEdges(_, _)
addEdges(g, rows) ==
    IF rows = {} THEN g
    ELSE LET e == CHOOSE x \in rows : TRUE
         IN  addEdges(addEdge(g, e[1], e[2]), rows \ {e})

\* The inputs: the citations table holds at most MaxCitations rows, each
\* pair once and no paper citing itself (the table's primary key, and the
\* skip in UpdateCitations).
MaxCitations == 4
RECURSIVE TablesUpTo(_, _)
TablesUpTo(n, pairs) ==
    IF n = 0 \/ pairs = {} THEN {{}}
    ELSE LET p == CHOOSE x \in pairs : TRUE
         IN  TablesUpTo(n, pairs \ {p}) \cup {t \cup {p} : t \in TablesUpTo(n - 1, pairs \ {p})}

GraphPairs == {<<a, b>> : a \in GraphIDs, b \in GraphIDs} \ {<<a, a>> : a \in GraphIDs}

CgIdle ==
    [pc |-> "idle", ctx |-> TRUE, center |-> <<>>, tbl |-> {}, cached |-> {},
     nodeSet |-> <<>>, edgeSet |-> {}, edges |-> <<>>, refs |-> <<>>, refIDs |-> {},
     citedBy |-> <<>>, i |-> 1, nodes |-> {}, result |-> "none"]

cgFrame == <<storeVars, syncVars, diskVars, workVars, ex, lruVars, dc, rb, er, ix, sv>>

\* GetCitationGraph(ctx, paperID) is entered.
CgStart ==
    /\ cg.pc = "idle"
    /\ \E t \in TablesUpTo(MaxCitations, GraphPairs), s \in SUBSET GraphIDs,
          id \in {IdNew, IdOld}, live \in BOOLEAN :
          cg' = [CgIdle EXCEPT !.pc = "center", !.ctx = live, !.center = id,
                               !.tbl = t, !.cached = s]
    /\ UNCHANGED cgFrame

\* GetCitationGraph(ctx, IdNew) is entered with ManyCiters in the table.
CgStartMany ==
    /\ cg.pc = "idle"
    /\ \E live \in BOOLEAN :
          cg' = [CgIdle EXCEPT !.pc = "center", !.ctx = live, !.center = IdNew,
                               !.tbl = ManyCiters, !.cached = Citers \cup {IdNew}]
    /\ UNCHANGED cgFrame

\* The caller cancels the context between two steps of the call.
CgCancel ==
    /\ cg.pc \in {"refs", "ref", "citedBy", "citing", "between"}
    /\ cg.ctx
    /\ cg' = [cg EXCEPT !.ctx = FALSE]
    /\ UNCHANGED cgFrame

\* GetPaper on the central paper: an error is returned, or the node is added.
CgCenter ==
    /\ cg.pc = "center"
    /\ cg' = IF cg.ctx /\ cg.center \in cg.cached
             THEN [cg EXCEPT !.pc = "refs",
                             !.nodeSet = addNode(cg.nodeSet, cg.center,
                                            [ID |-> cg.center, Year |-> CreatedYear(cg.center),
                                             Citations |-> CitedByCount(cg.tbl, cg.ctx, cg.center),
                                             Cached |-> TRUE])]
             ELSE [cg EXCEPT !.pc = "done", !.result = "err"]
    /\ UNCHANGED cgFrame

\* References(ctx, paperID): an error is returned, or the loop starts.
CgReferences ==
    /\ cg.pc = "refs"
    /\ cg' = IF cg.ctx
             THEN [cg EXCEPT !.pc = "ref", !.i = 1,
                             !.refs = References(cg.tbl, cg.cached, cg.center)]
             ELSE [cg EXCEPT !.pc = "done", !.result = "err"]
    /\ UNCHANGED cgFrame

\* for _, ref := range refs: one reference; the year comes from the id and,
\* when the paper is stored and GetPaper succeeds, from its created date.
CgRef ==
    /\ cg.pc = "ref"
    /\ cg.i <= Len(cg.refs)
    /\ LET ref == cg.refs[cg.i]
           year == IF ref.HasTitle /\ cg.ctx THEN CreatedYear(ref.ID) ELSE yearFromID(ref.ID)
           node == [ID |-> ref.ID, Year |-> year,
                    Citations |-> CitedByCount(cg.tbl, cg.ctx, ref.ID), Cached |-> ref.HasTitle]
           g == addEdge([cg EXCEPT !.nodeSet = addNode(cg.nodeSet, ref.ID, node)],
                        cg.center, ref.ID)
       IN  cg' = [g EXCEPT !.i = cg.i + 1, !.refIDs = cg.refIDs \cup {ref.ID}]
    /\ UNCHANGED cgFrame

\* CitedBy(ctx, paperID, 100): an error is returned, or the loop starts.
CgCitedBy ==
    /\ cg.pc = "ref"
    /\ cg.i > Len(cg.refs)
    /\ cg' = IF cg.ctx
             THEN [cg EXCEPT !.pc = "citing", !.i = 1,
                             !.citedBy = CitedBy(cg.tbl, cg.cached, cg.center, graphLimit)]
             ELSE [cg EXCEPT !.pc = "done", !.result = "err"]
    /\ UNCHANGED cgFrame

\* for _, citing := range citedBy: one citing paper; year 0 when GetPaper
\* fails.
CgCiting ==
    /\ cg.pc = "citing"
    /\ cg.i <= Len(cg.citedBy)
    /\ LET id == cg.citedBy[cg.i]
           node == [ID |-> id, Year |-> IF cg.ctx THEN CreatedYear(id) ELSE 0,
                    Citations |-> CitedByCount(cg.tbl, cg.ctx, id), Cached |-> TRUE]
           g == addEdge([cg EXCEPT !.nodeSet = addNode(cg.nodeSet, id, node)], id, cg.center)
       IN  cg' = [g EXCEPT !.i = cg.i + 1]
    /\ UNCHANGED cgFrame

\* The edges between references (the query's error is not looked at), the
\* node map turned into the slice, and the graph returned.
CgBetween ==
    /\ cg.pc = "citing"
    /\ cg.i > Len(cg.citedBy)
    /\ LET g == IF cg.refIDs # {} /\ cg.ctx
                THEN addEdges(cg, betweenReferences(cg.tbl, cg.center))
                ELSE cg
       IN  cg' = [g EXCEPT !.pc = "done", !.result = "nil",
                           !.nodes = {g.nodeSet[k] : k \in DOMAIN g.nodeSet}]
    /\ UNCHANGED cgFrame

NextGraph ==
    \/ CgStart
    \/ CgCancel
    \/ CgCenter
    \/ CgReferences
    \/ CgRef
    \/ CgCitedBy
    \/ CgCiting
    \/ CgBetween

\* ------------------------------------------------------------------ papers_fts
\* The papers table as SQLite keeps it (each row under its rowid) and the
\* index papers_fts as the triggers of initSchema keep it: a bag of entries
\* (rowid, title); title stands for title and abstract.
Titles == {"t1", "t2"}
IxCallers == {"w1", "w2"}
MaxRowid == 3
NoIxRow == [present |-> FALSE, rowid |-> 0, title |-> "", pdf_downloaded |-> FALSE]
IxIdle ==
    [rows |-> [p \in PaperIDs |-> NoIxRow], fts |-> EmptyBag,
     pend |-> [w \in IxCallers |-> ""]]

ftsEntry(row) == [rowid |-> row.rowid, title |-> row.title]

\* CREATE TRIGGER papers_ai AFTER INSERT, papers_ad AFTER DELETE, papers_au
\* AFTER UPDATE.
papers_ai(fts, new) == fts (+) SetToBag({ftsEntry(new)})
papers_ad(fts, old) == fts (-) SetToBag({ftsEntry(old)})
papers_au(fts, old, new) == papers_ai(papers_ad(fts, old), new)

\* PRAGMA recursive_triggers: the connection string sets foreign_keys only,
\* so it has SQLite's default, off, and the rows REPLACE deletes fire no
\* delete trigger.
recursiveTriggers == FALSE

\* The rowid of a row inserted without one: one more than the largest.
newRowid(rows) ==
    1 + (CHOOSE m \in 0..MaxRowid :
            /\ \A p \in PaperIDs : rows[p].rowid <= m
            /\ m = 0 \/ \E p \in PaperIDs : rows[p].rowid = m)

\* INSERT ... ON CONFLICT (id) DO UPDATE, as gorm's Save of a slice writes
\* it, for one row: an absent row is inserted, a present one updated in
\* place with every column of the new value, the download flags included.
upsertRow(x, id, title) ==
    LET old == x.rows[id]
        new == [present |-> TRUE, rowid |-> IF old.present THEN old.rowid ELSE newRowid(x.rows),
                title |-> title, pdf_downloaded |-> FALSE]
    IN  [x EXCEPT !.rows[id] = new,
                  !.fts = IF old.present THEN papers_au(x.fts, old, new) ELSE papers_ai(x.fts, new)]

\* INSERT OR REPLACE for one row: the new rowid is taken, a present row is
\* deleted, the new row is inserted.
replaceRow(x, id, title) ==
    LET old == x.rows[id]
        new == [present |-> TRUE, rowid |-> newRowid(x.rows), title |-> title,
                pdf_downloaded |-> FALSE]
        deleted == IF old.present /\ recursiveTriggers THEN papers_ad(x.fts, old) ELSE x.fts
    IN  [x EXCEPT !.rows[id] = new, !.fts = papers_ai(deleted, new)]

ixFrame == <<storeVars, syncVars, diskVars, workVars, ex, lruVars, dc, rb, er, cg, sv>>

\* insertPapers on a batch of harvested records, here one record.
IxInsertPapers ==
    /\ \E id \in PaperIDs, t \in Titles :
          /\ ix.rows[id].present \/ newRowid(ix.rows) <= MaxRowid
          /\ ix' = upsertRow(ix, id, t)
    /\ UNCHANGED ixFrame

\* Fetch (and FetchBatch for each id): GetPaper does not find the paper and
\* the API is asked.
IxFetchMiss(w) ==
    /\ ix.pend[w] = ""
    /\ \E id \in PaperIDs :
          /\ ~ix.rows[id].present
          /\ ix' = [ix EXCEPT !.pend[w] = id]
    /\ UNCHANGED ixFrame

\* The answer is stored with INSERT OR REPLACE.
IxFetchStore(w) ==
    /\ ix.pend[w] # ""
    /\ newRowid(ix.rows) <= MaxRowid
    /\ \E t \in Titles : ix' = [replaceRow(ix, ix.pend[w], t) EXCEPT !.pend[w] = ""]
    /\ UNCHANGED ixFrame

\* The request or the INSERT fails: nothing is stored.
IxFetchFail(w) ==
    /\ ix.pend[w] # ""
    /\ ix' = [ix EXCEPT !.pend[w] = ""]
    /\ UNCHANGED ixFrame

\* DownloadPaper's UPDATE papers SET pdf_path = ?, pdf_downloaded = 1 WHERE
\* id = ? (the source's likewise) on a stored paper.
IxUpdateFlag ==
    /\ \E id \in PaperIDs :
          /\ ix.rows[id].present
          /\ ~ix.rows[id].pdf_downloaded
          /\ LET old == ix.rows[id]
                 new == [old EXCEPT !.pdf_downloaded = TRUE]
             IN  ix' = [ix EXCEPT !.rows[id] = new, !.fts = papers_au(ix.fts, old, new)]
    /\ UNCHANGED ixFrame

NextFts ==
    \/ IxInsertPapers
    \/ \E w \in IxCallers : IxFetchMiss(w)
    \/ \E w \in IxCallers : IxFetchStore(w)
    \/ \E w \in IxCallers : IxFetchFail(w)
    \/ IxUpdateFlag

\* ------------------------------------------------------------------ Init
Init ==
    /\ papers = [p \in PaperIDs |-> NoRow]
    /\ citations = EmptyBag
    /\ syncState = [resumption_token |-> 0, last_sync |-> NoDate]
    /\ spc = "idle"
    /\ sctx = TRUE
    /\ resumptionToken = 0
    /\ batch = <<>>
    /\ opts = [Set |-> NoSet, From |-> NoDate, Until |-> NoDate, BatchSize |-> DefaultBatchSize]
    /\ resp = 0
    /\ sresult = "none"
    /\ runs = 0
    /\ reqs = <<>>
    /\ log = <<>>
    /\ consumed = {}
    /\ failedPage = 0
    /\ startToken = 0
    /\ atStart = [Set |-> NoSet, From |-> NoDate, Until |-> NoDate, last_sync |-> NoDate]
    /\ prev = [result |-> "none", failedPage |-> 0, token |-> 0]
    /\ pdfFile = [p \in PaperIDs |-> "absent"]
    /\ srcDir = [p \in PaperIDs |-> "absent"]
    /\ calls = [w \in Callers |-> NoCall]
    /\ hist = NoHist
    /\ ex = ExIdle
    /\ paperLRU = NewLRUCache(lruSize)
    /\ lruRef = NewRef(lruSize)
    /\ mu = NoLock
    /\ lruCalls = [g \in LruCallers |-> NoLruCall]
    /\ dc = DcIdle
    /\ rb = RbIdle
    /\ er = ErIdle
    /\ cg = CgIdle
    /\ ix = IxIdle
    /\ sv = TRUE

Next ==
    \/ NextSync
    \/ \E w \in Callers : NextDownload(w, PaperIDs)
    \/ \E w \in Callers : NextIndex(w, PaperIDs)
    \/ \E w \in Callers, id \in PaperIDs : GetPaper(w, id)
    \/ NextExtract
    \/ NextLRU(LruCallers, Keys, LruValues, Capacities)
    \/ DcStart
    \/ DcSteps
    \/ RbStart
    \/ RbSteps
    \/ NextRefs
    \/ NextGraph
    \/ NextFts

Spec == Init /\ [][Next]_vars

\* The harvester alone.
SpecSync == Init /\ [][NextSync]_vars

\* The harvester invoked once and again after every run that failed.  The
\* contexts of the first MaxRuns - 1 runs can be cancelled and the process
\* can die during them; later runs have live contexts.  A page request and
\* an insert can fail at any time.
SyncRestartLive == SyncRestart /\ (runs' = MaxRuns => sctx')

SyncProgress ==
    \/ SyncCheckCtx
    \/ SyncAppend
    \/ SyncCommitSkip
    \/ SyncSaveToken
    \/ SyncLastPage
    \/ SyncSleep
    \/ SyncFlushSkip
    \/ SyncClearToken
    \/ SyncSaveLastSync

\* A call to the remote or to the database returns, one way or the other.
SyncReturns ==
    \/ SyncListRecordsFail
    \/ SyncListRecordsOk
    \/ SyncCommitOk
    \/ SyncCommitFail
    \/ SyncFlushOk
    \/ SyncFlushFail

NextSyncLive ==
    \/ spc = "idle" /\ SyncStart
    \/ SyncRestartLive
    \/ runs < MaxRuns /\ SyncCancel
    \/ runs < MaxRuns /\ SyncCrash
    \/ SyncProgress
    \/ SyncReturns

\* Every step of a run is taken in the end, a failed run is followed by
\* another, and a page request and an insert that are tried again and again
\* succeed in the end.
SpecSyncLive ==
    /\ Init /\ [][NextSyncLive]_vars
    /\ WF_vars(SyncProgress)
    /\ WF_vars(SyncReturns)
    /\ WF_vars(SyncRestartLive)
    /\ SF_vars(SyncListRecordsOk)
    /\ SF_vars(SyncCommitOk)
    /\ SF_vars(SyncFlushOk)

\* One client making one call after another, nothing else running.
NextSeq ==
    \/ NextDownload(SeqClient, PaperIDs)
    \/ NextIndex(SeqClient, PaperIDs)

SpecSeq == Init /\ [][NextSeq]_vars

\* Two callers downloading the same paper at the same time.
NextDl == \E w \in Workers : NextDownload(w, {"p1"})

SpecDl == Init /\ [][NextDl]_vars

\* A re-indexer and a worker updating the citations of the same paper.
NextCit ==
    \E w \in {Reindexer, "w1"} :
        \/ UpdateCitationsStart(w, "p1")
        \/ UpdateCitationsExtract(w)
        \/ UpdateCitationsInsert(w)
        \/ Cancel(w)

SpecCit == Init /\ [][NextCit]_vars

\* The same two callers, given directories whose sources cite a third paper.
WideRefLists == {<<"p2">>, <<"p3">>, <<"p2", "p3">>, <<"p1", "p3">>}

NextCitWide ==
    \E w \in {Reindexer, "w1"} :
        \/ UpdateCitationsStart(w, "p1")
        \/ UpdateCitationsOver(w, WideRefLists)
        \/ UpdateCitationsInsert(w)

SpecCitWide == Init /\ [][NextCitWide]_vars

SpecExtract == Init /\ [][NextExtract]_vars

\* One client fetching, downloading and looking papers up.
NextRead ==
    \/ NextDownload(SeqClient, PaperIDs)
    \/ \E id \in PaperIDs : GetPaper(SeqClient, id)

SpecRead == Init /\ [][NextRead]_vars

\* One caller using an LRUCache.
SpecLRU == Init /\ [][NextLRU({"g1"}, Keys, {"v1"}, Capacities)]_vars

\* Two callers using one LRUCache at the same time.
SpecLRUConc == Init /\ [][NextLRU(LruCallers, {"A", "B", "C"}, LruValues, {2})]_vars

\* One worker fetching papers, downloading their sources and updating one
\* paper's citations, and the re-indexer rebuilding them all once; a call
\* starts only while no other call is running.
Quiet == Free("w1") /\ rb.pc \in {"idle", "done"}

SourceOnly == [DownloadPDF |-> FALSE, DownloadSource |-> TRUE]

NextRebuild ==
    \/ \E id \in PaperIDs :
          Quiet /\ DownloadPaperStart("w1", id) /\ calls'["w1"].opts = SourceOnly
    \/ \E id \in PaperIDs : Quiet /\ FetchStart("w1", id)
    \/ \E id \in PaperIDs : Quiet /\ UpdateCitationsStart("w1", id)
    \/ Cancel("w1")
    \/ DownloadPDFStat("w1")
    \/ DownloadSourceStat("w1")
    \/ DownloadSourceGetFail("w1")
    \/ DownloadSourceGetOk("w1")
    \/ ExtractSourceBegin("w1")
    \/ ExtractSourceEnd("w1")
    \/ DownloadSourceUpdate("w1")
    \/ UpdateCitationsExtract("w1")
    \/ UpdateCitationsInsert("w1")
    \/ FetchFail("w1")
    \/ FetchStore("w1")
    \/ Quiet /\ RbStart
    \/ RbSteps

SpecRebuild == Init /\ [][NextRebuild]_vars

\* The two jobs that send request after request to the remote, one of them
\* in a behaviour: a harvest, or a bulk download of papers fetched before it.
NextRate ==
    \/ dc.pc = "idle" /\ SyncStart
    \/ SyncSteps
    \/ \E id \in PaperIDs : dc.pc = "idle" /\ spc = "idle" /\ FetchStart(SeqClient, id)
    \/ DownloadSteps(SeqClient)
    \/ spc = "idle" /\ Free(SeqClient) /\ DcStart
    \/ DcSteps

SpecRate == Init /\ [][NextRate]_vars

\* One caller fetching and downloading one paper, call after call, in a
\* process that can die at any step and be started again.
NextCrash ==
    \/ FetchStart("w1", "p1")
    \/ DownloadPaperStart("w1", "p1")
    \/ DownloadSteps("w1")
    \/ Crash
SpecCrash == Init /\ [][NextCrash]_vars

\* ------------------------------------------------------------ the web server
\* The goroutine renderPaper starts for the source of a paper.
Background == "w1"

\* bgCtx := context.Background(): live whatever the request context and the
\* process-lifetime context are, and never cancelled.
backgroundCtx(request, process) == TRUE

\* srvFrame: what the server steps leave alone.
srvFrame == <<storeVars, syncVars, diskVars, ex, lruVars, dc, rb, er, cg, ix>>

\* A page view of the stored paper id arrives: renderPaper runs under
\* r.Context().
RenderPaperStart(id) ==
    /\ sv
    /\ papers[id].present
    /\ Free(SeqClient) /\ Free(Background)
    /\ calls' = [calls EXCEPT ![SeqClient] =
                   [NoCall EXCEPT !.op = "renderPaper", !.id = id, !.pc = "render"]]
    /\ hist' = Observe(SeqClient)
    /\ UNCHANGED <<srvFrame, sv>>

\* GetPaper(ctx, id) on a stored paper fails only under a cancelled request
\* context; FetchAndDownload under that context fails as well, without a
\* request sent or a row written, and the page is a 404.  Else, when the
\* source is not downloaded, go DownloadPaper(bgCtx, id, source only); the
\* page is rendered.
RenderPaper ==
    /\ At(SeqClient, "renderPaper", "render")
    /\ LET c == calls[SeqClient]
           found == c.ctx /\ papers[c.id].present
           bg == [NoCall EXCEPT !.op = "DownloadPaper", !.id = c.id, !.opts = SourceOnly,
                                !.ctx = backgroundCtx(c.ctx, sv),
                                !.paper = IF backgroundCtx(c.ctx, sv) THEN papers[c.id] ELSE NoRow,
                                !.pc = IF backgroundCtx(c.ctx, sv) THEN "pdf" ELSE "done",
                                !.result = IF backgroundCtx(c.ctx, sv) THEN "none" ELSE "err_get"]
       IN  calls' = IF ~found THEN [calls EXCEPT ![SeqClient] = Return(c, "not_found")]
                    ELSE IF papers[c.id].src_downloaded
                    THEN [calls EXCEPT ![SeqClient] = Return(c, "nil")]
                    ELSE [calls EXCEPT ![SeqClient] = Return(c, "nil"), ![Background] = bg]
    /\ UNCHANGED <<srvFrame, hist, sv>>

\* The interrupt signal: the context of main is done, and cmdServe calls
\* httpServer.Shutdown, which waits for the requests being served.
Shutdown ==
    /\ sv
    /\ sv' = FALSE
    /\ UNCHANGED <<srvFrame, workVars>>

\* ListenAndServe has returned and main returns: the process is gone, with
\* the goroutines that were still running.
Exit ==
    /\ ~sv
    /\ Free(SeqClient)
    /\ \E w \in Callers : ~Free(w)
    /\ calls' = [w \in Callers |-> IF Free(w) THEN calls[w] ELSE NoCall]
    /\ UNCHANGED <<srvFrame, hist, sv>>

\* Page views of p1, the client going away, the background download, the
\* signal; p1 comes into the Store through Fetch.
NextServe ==
    \/ FetchStart("w2", "p1")
    \/ FetchFail("w2")
    \/ FetchStore("w2")
    \/ RenderPaperStart("p1")
    \/ Cancel(SeqClient)
    \/ RenderPaper
    \/ DownloadPDFStat(Background)
    \/ DownloadSourceStat(Background)
    \/ DownloadSourceGetFail(Background)
    \/ DownloadSourceGetOk(Background)
    \/ ExtractSourceBegin(Background)
    \/ ExtractSourceEnd(Background)
    \/ DownloadSourceUpdate(Background)
    \/ UpdateCitationsExtract(Background)
    \/ UpdateCitationsInsert(Background)
    \/ Shutdown
    \/ Exit

SpecServe == Init /\ [][NextServe]_vars

\* ExtractReferences alone, on every tree of the bound.
SpecRefs == Init /\ [][NextRefs]_vars

\* GetCitationGraph alone, on every citations table of the bound.
SpecGraph == Init /\ [][NextGraph]_vars

\* GetCitationGraph on the tables of up to two rows and on ManyCiters.
NextGraphMany ==
    \/ CgStart /\ Cardinality(cg'.tbl) <= 2
    \/ CgStartMany
    \/ CgCancel
    \/ CgCenter
    \/ CgReferences
    \/ CgRef
    \/ CgCitedBy
    \/ CgCiting
    \/ CgBetween

SpecGraphMany == Init /\ [][NextGraphMany]_vars

\* The writes to the papers table and the triggers, two Fetch callers.
SpecFts == Init /\ [][NextFts]_vars

\* One client whose calls for one paper come before and after one harvest:
\* a call starts only while no other call is running.  The calls are those
\* that write the papers table (UpdateCitations runs inside DownloadPaper).
NextStore ==
    \/ Free(SeqClient) /\ spc = "idle" /\ SyncStart /\ opts'.Set = NoSet
    \/ SyncSteps
    \/ spc \in {"idle", "done"} /\ DownloadPaperStart(SeqClient, "p1")
    \/ spc \in {"idle", "done"} /\ FetchStart(SeqClient, "p1")
    \/ spc \in {"idle", "done"} /\ FetchBatchStart(SeqClient, {"p1"})
    \/ DownloadSteps(SeqClient)
    \/ IndexSteps(SeqClient)

SpecStore == Init /\ [][NextStore]_vars

\* =================================================================== claims

Committed(pages) == \A j \in pages : Ids(PageRecords(j)) \subseteq Present(papers)

\* C1: whenever a resumption token is persisted, every record of every page up to
\* and including the page that returned that token is in the papers table.
C1_CursorNeverPastUncommitted ==
    syncState.resumption_token # 0 => Committed(1..syncState.resumption_token)

C9_CompletionClearsTokenAndCommits ==
    (spc = "done" /\ sresult = "nil") =>
        /\ syncState.resumption_token = 0
        /\ syncState.last_sync = Today
        /\ Committed(consumed)

\* C3: once pdf_downloaded (src_downloaded) of a paper is true in the Store, no
\* step of DownloadPaper, SyncMetadata, Fetch or FetchBatch makes it false again
\* or clears or changes the stored path.
C3_DownloadFlagsMonotonic ==
    [][\A p \in PaperIDs :
          /\ papers[p].pdf_downloaded =>
                (papers'[p].pdf_downloaded /\ papers'[p].pdf_path = papers[p].pdf_path)
          /\ papers[p].src_downloaded =>
                (papers'[p].src_downloaded /\ papers'[p].src_path = papers[p].src_path)]_vars

\* C4: while DownloadPaper calls for the same paper run concurrently, a paper
\* flagged pdf_downloaded (src_downloaded) has its PDF (its source directory)
\* completely written on disk: never absent, never partial.
C4_FlaggedMeansComplete ==
    \A p \in PaperIDs :
        /\ papers[p].pdf_downloaded => pdfFile[p] = "complete"
        /\ papers[p].src_downloaded => srcDir[p] = "complete"

\* C5: the step on which the copy of the response body to the PDF destination
\* fails ends the DownloadPaper call with an error, leaves no file at the
\* destination path, and leaves the record with pdf_downloaded false and
\* pdf_path unset.
C5_CopyFailureLeavesNothing ==
    [][\A w \in Callers :
          (calls[w].pc = "pdf_copy" /\ calls'[w].pc = "done")
             => /\ calls'[w].result = "err_pdf_copy"
                /\ pdfFile'[calls[w].id] = "absent"
                /\ ~papers'[calls[w].id].pdf_downloaded
                /\ papers'[calls[w].id].pdf_path = ""]_vars

\* C6: a DownloadPaper call made right after a DownloadPaper call for the same
\* paper with the same options that returned nil issues no HTTP request and
\* leaves the paper's files, record and outgoing citation edges as it found them.
C6_SecondDownloadIsNoOp ==
    LET c == calls[SeqClient] IN
    (c.pc = "done" /\ c.op = "DownloadPaper" /\ hist.op = "DownloadPaper"
       /\ hist.result = "nil" /\ hist.id = c.id /\ hist.opts = c.opts)
       => /\ c.http = 0
          /\ pdfFile[c.id] = hist.pdf
          /\ srcDir[c.id] = hist.src
          /\ papers[c.id] = hist.row
          /\ EdgesFrom(citations, c.id) = hist.edges

\* C7: in every Store state a non-empty pdf_path comes with pdf_downloaded true
\* and a non-empty src_path with src_downloaded true, whichever writer (the
\* harvester's upsert, INSERT OR REPLACE, the two UPDATEs) wrote the row last.
C7_PathImpliesFlag ==
    \A p \in PaperIDs :
        /\ papers[p].pdf_path # "" => papers[p].pdf_downloaded
        /\ papers[p].src_path # "" => papers[p].src_downloaded

C7_Witness ==
    /\ papers["p1"].pdf_path = pdfPathOf("p1")
    /\ papers["p1"].src_path = srcPathOf("p1")
    /\ papers["p2"].present
    /\ spc = "done"

\* C10: when an UpdateCitations call whose context stayed live has returned, the
\* edges going out of its paper are exactly the extracted references other than
\* the paper itself, the empty extraction included.
C10_EdgesAreExactlyExtracted ==
    LET c == calls[SeqClient] IN
    (c.pc = "done" /\ c.op = "UpdateCitations" /\ c.srcPath # "" /\ c.ctx)
       => EdgesFrom(citations, c.id) = {<<c.id, r>> : r \in Ids(c.refs) \ {c.id}}

C12_NoWriteOutsideDestination ==
    LET es == ex.payload.entries
        skipped(k) == hasDotDotPrefix(Clean(es[k].name))
        target(k) == Join(dstDir, Clean(es[k].name))
    IN  /\ \A f \in ex.files : Within(f.path)
        /\ \A d \in ex.dirs \ Preexisting : Within(d.path)
        /\ \A k \in 1..Len(es) :
              skipped(k) =>
                 /\ \A f \in ex.files : f.from # k
                 /\ \A d \in ex.dirs : d.from # k
                 /\ ~(ex.err = "err" /\ ex.i = k /\ ex.payload.bad # k)
        /\ (ex.pc = "done" /\ ex.err = "nil") =>
              \A k \in 1..Len(es) :
                 ~skipped(k) =>
                    /\ es[k].type = "reg" =>
                          \E f \in ex.files : f.path = target(k) /\ f.from >= k
                    /\ es[k].type = "dir" =>
                          \E d \in ex.dirs : d.path = target(k)

C12_Witness ==
    /\ ex.pc = "done"
    /\ ex.err = "nil"
    /\ ex.payload.entries = << [name |-> <<"..", "..", "etc", "passwd">>, type |-> "reg", size |-> 10],
                               [name |-> <<"a.tex">>, type |-> "reg", size |-> 10] >>
    /\ ex.files = {[path |-> <<"", "cache", "p1", "a.tex">>, from |-> 2, bytes |-> 10]}

\* C17: when the payload is not a valid gzip+tar stream (gzip refuses it,
\* or a tar header cannot be read), downloadSource returns nil and the
\* source directory holds main.tex with the whole payload and nothing else.
C17_InvalidPayloadLeavesOnlyMainTex ==
    (ex.pc = "done" /\ (~ex.payload.gzip \/ ex.payload.bad # 0)) =>
        /\ ex.result = "nil"
        /\ ex.files = {[path |-> Join(dstDir, <<"main.tex">>), from |-> 0,
                        bytes |-> ex.payload.raw]}
        /\ \A d \in ex.dirs \ Preexisting : d.path = dstDir

\* C18: no extracted file is larger than MaxFileBytes; an entry larger than
\* that leaves no file at all, and every file that was written holds its
\* entry whole, the entries after an oversized one included.
C18_OversizeEntryRejected ==
    LET es == ex.payload.entries
    IN  /\ \A f \in ex.files : f.bytes <= MaxFileBytes
        /\ \A f \in ex.files : f.from # 0 => f.bytes = es[f.from].size
        /\ (ex.pc = "done" /\ ex.err = "nil") =>
              \A k \in 1..Len(es) :
                 (/\ es[k].type = "reg"
                  /\ es[k].size <= MaxFileBytes
                  /\ ~hasDotDotPrefix(Clean(es[k].name))) =>
                    \E f \in ex.files : f.path = Join(dstDir, Clean(es[k].name))

\* The cache holds what the reference holds: the same keys in the map and
\* in the list, once each, with the same values, the list ordered from the
\* most recent Put or successful Get to the oldest, never over capacity.
AgreesWithReference ==
    LET l == paperLRU.list IN
    /\ paperLRU.cache = RefHeld(lruRef)
    /\ ListKeys(l) = RefHeld(lruRef)
    /\ Len(l) = Cardinality(RefHeld(lruRef))
    /\ Len(l) <= paperLRU.capacity
    /\ \A i \in 1..Len(l) : l[i].value = lruRef.val[l[i].key]
    /\ \A i \in 1..Len(l) : \A j \in (i + 1)..Len(l) :
          lruRef.stamp[l[i].key] > lruRef.stamp[l[j].key]

\* C13: over every sequence of Get, Put, Delete and Clear by one caller,
\* between calls the cache agrees with the reference LRU, every call
\* returns what the reference returns, and a Put removed an entry exactly
\* when the reference does (new key, cache full), namely the one whose most
\* recent Put or successful Get is oldest; a Get and a Put on an existing
\* key removed nothing.
C13_BehavesAsReferenceLRU ==
    LET c == lruCalls["g1"] IN
    /\ c.pc \in {"idle", "lock"} => AgreesWithReference
    /\ c.pc = "unlock" => (AgreesWithReference /\ c.ret = c.want)
    /\ (c.pc = "unlock" /\ c.op = "Get") => c.ret.evicted = "none"

\* Capacity 3, Put A, B, C, D, then Get(B), then Put E: E, B, D are left,
\* C was the one removed by the last Put.
C13_Witness ==
    /\ paperLRU.capacity = 3
    /\ lruCalls["g1"].pc = "unlock"
    /\ lruCalls["g1"].op = "Put"
    /\ lruCalls["g1"].key = "E"
    /\ lruCalls["g1"].ret.evicted = "C"
    /\ lruRef.stamp = [k \in Keys |-> IF k = "D" THEN 4 ELSE IF k = "B" THEN 5
                                      ELSE IF k = "E" THEN 6 ELSE 0]
    /\ [i \in 1..Len(paperLRU.list) |-> paperLRU.list[i].key] = <<"E", "B", "D">>

\* C14: in every interleaving of two callers' Get, Put, Delete, Clear and
\* Size calls, at most one caller is inside a writing method and none
\* beside a reader of Size, the cache agrees with the reference whenever no
\* writer is inside (the reference takes each call when its lock is
\* granted, so the calls take effect in one sequential order), every call
\* returns what the reference returns in that order, and a step taken
\* while the lock is held touches neither the store nor the disk.
C14_CallsAreAtomicUnderLock ==
    [][ /\ Cardinality(mu'.writers) <= 1
        /\ mu'.writers # {} => mu'.readers = {}
        /\ mu'.writers = {} => AgreesWithReference'
        /\ \A g \in LruCallers :
              lruCalls'[g].pc = "unlock" => lruCalls'[g].ret = lruCalls'[g].want
        /\ (mu.writers # {} \/ mu.readers # {}) => UNCHANGED <<storeVars, diskVars>>
      ]_vars

\* A Get of a key waits for the lock while a Put that found the cache full
\* is between evicting that key and inserting its own.
C14_Witness ==
    /\ lruCalls["g1"].pc = "PutPush"
    /\ lruCalls["g1"].ret.evicted # "none"
    /\ lruCalls["g2"].pc = "lock"
    /\ lruCalls["g2"].op = "Get"
    /\ lruCalls["g2"].key = lruCalls["g1"].ret.evicted

\* C15: a GetPaper that returned a paper has left it in the in-memory
\* cache, so that the next lookup of the same id is a hit, and every key
\* the cache holds is a paper present in the store.
C15_LookupIsReadThrough ==
    /\ \A w \in Callers :
          (calls[w].op = "GetPaper" /\ calls[w].pc = "done" /\ calls[w].result = "nil")
             => calls[w].id \in paperLRU.cache
    /\ \A k \in paperLRU.cache : k \in PaperIDs /\ papers[k].present

\* C16: after a DownloadPaper asked for both artifacts, with a context that
\* stayed live, each flag reflects its own artifact's download: when the
\* PDF download failed the source is flagged all the same, unless a request
\* for the source was sent and failed too; and when the source download
\* failed the PDF is flagged.
C16_EachFlagItsOwnOutcome ==
    LET c == calls[SeqClient] IN
    (/\ c.op = "DownloadPaper"
     /\ c.pc = "done"
     /\ c.ctx
     /\ c.opts.DownloadPDF
     /\ c.opts.DownloadSource) =>
        /\ c.result \in {"err_pdf_get", "err_pdf_copy"} =>
              (papers[c.id].src_downloaded \/ c.http >= 2)
        /\ c.result = "err_src_get" => papers[c.id].pdf_downloaded

\* C19: once the context of a running SyncMetadata is cancelled, no step
\* puts a further request on the wire, no step changes the persisted
\* resumption token, last_sync or a stored paper, and when the call returns
\* it returns the cancellation error.
C19_CancelledSyncReturnsCtxErr ==
    [][ (~sctx /\ spc \notin {"idle", "done"}) =>
           /\ reqs' = reqs
           /\ syncState' = syncState
           /\ papers' = papers
           /\ (spc' = "done" /\ sresult' # "crashed") => sresult' = "ctx_err"
      ]_vars

\* C20: in a run that reached its first request, opts.From is the persisted
\* last_sync exactly when no resumption token was persisted and the caller
\* gave no start date, and the caller's date otherwise; the first request
\* carries the persisted token alone, or else that date as its filter (no
\* filter when neither was there).
C20_LastSyncIsTheDefaultStart ==
    (spc # "idle" /\ Len(reqs) >= 1) =>
        /\ opts.From = IF startToken = 0 /\ atStart.From = NoDate
                       THEN atStart.last_sync
                       ELSE atStart.From
        /\ reqs[1].token = startToken
        /\ reqs[1].from = IF startToken # 0 THEN NoDate
                          ELSE IF atStart.From # NoDate THEN atStart.From
                          ELSE atStart.last_sync

C20_Witness ==
    /\ Len(reqs) >= 1
    /\ startToken = 0
    /\ atStart.From = NoDate
    /\ atStart.last_sync = Today
    /\ reqs[1].token = 0
    /\ reqs[1].from = Today

\* C21: in a run that started with a resumption token persisted, the first
\* request carries that token and no set, from or until, whatever the
\* caller passed; and every later request of a run carries the token the
\* page before it returned, and nothing else.
C21_TokenRequestsCarryNoFilter ==
    /\ (spc # "idle" /\ startToken # 0 /\ Len(reqs) >= 1) =>
          reqs[1] = [token |-> startToken, set |-> NoSet, from |-> NoDate, until |-> NoDate]
    /\ \A i \in 2..Len(reqs) :
          reqs[i] = [token |-> PageToken(PageOf(reqs[i - 1].token)),
                     set |-> NoSet, from |-> NoDate, until |-> NoDate]

\* A run resumed from a persisted token by a caller who passed a set and
\* both dates has made two requests.
C21_Witness ==
    /\ startToken # 0
    /\ atStart.Set = CallerSet
    /\ atStart.From = CallerFrom
    /\ atStart.Until = CallerUntil
    /\ Len(reqs) >= 2

\* C22: within one SyncMetadata run a sleep lies between any two requests,
\* and within one DownloadCategory run no request follows another without
\* a sleep in between (at most one request has been sent since the last
\* sleep), whether the earlier request succeeded or failed.
C22_DelayBetweenRequests ==
    /\ \A i \in 1..Len(log) : \A j \in (i + 1)..Len(log) :
          (log[i] = "request" /\ log[j] = "request") =>
             \E k \in (i + 1)..(j - 1) : log[k] = "sleep"
    /\ dc.pending <= 1

\* C23: the citations table never holds an edge from a paper to itself,
\* whatever UpdateCitations, DownloadPaper and RebuildAllCitations calls
\* were made, also when a paper's references name the paper itself.
C23_NoSelfCitation ==
    \A e \in BagToSet(citations) : e[1] # e[2]

\* An UpdateCitations whose references named the paper itself has run to
\* the end with a live context and left the paper's other edge.
C23_Witness ==
    /\ calls["w1"].pc = "done"
    /\ calls["w1"].ctx
    /\ calls["w1"].id = "p1"
    /\ calls["w1"].refs = <<"p2", "p1">>
    /\ BagIn(<<"p1", "p2">>, citations)

\* What the text files of a tree yield, in walk order, then line order,
\* then pattern order.
RECURSIVE scanned(_)
scanned(tree) ==
    IF tree = <<>> THEN <<>>
    ELSE (IF Head(tree).ext \in TextExts THEN extractFromFile(Head(tree).lines) ELSE <<>>)
         \o scanned(Tail(tree))

\* An identifier ends in a version suffix: a v of either case, as the
\* patterns take it, and digits.
hasVersionSuffix(id) ==
    \E k \in 2..(Len(id) - 1) :
       id[k] \in {"v", "V"} /\ AllIn(SubSeq(id, k + 1, Len(id)), Digits)

withoutVersion(id) ==
    IF hasVersionSuffix(id)
    THEN SubSeq(id, 1, (CHOOSE k \in 2..(Len(id) - 1) :
                           id[k] \in {"v", "V"} /\ AllIn(SubSeq(id, k + 1, Len(id)), Digits)) - 1)
    ELSE id

RECURSIVE firstSeen(_, _)
firstSeen(ids, out) ==
    IF ids = <<>> THEN out
    ELSE LET b == withoutVersion(Head(ids))
         IN  firstSeen(Tail(ids), IF \E k \in 1..Len(out) : out[k] = b THEN out ELSE Append(out, b))

\* C24: what ExtractReferences returns holds no identifier twice and none
\* with a version suffix, and for a tree whose text files yield matches it
\* is the list of the matched identifiers without their version suffixes,
\* each at the position of its first occurrence.
C24_DistinctNormalizedFirstSeen ==
    er.pc = "done" =>
       /\ \A i, j \in 1..Len(er.refs) : er.refs[i] = er.refs[j] => i = j
       /\ \A i \in 1..Len(er.refs) : ~hasVersionSuffix(er.refs[i])
       /\ ~er.fallback => er.refs = firstSeen(scanned(er.tree), <<>>)

\* The references and the stored citing papers of the central paper, read
\* off the tables.
referencesOf(id) == {e[2] : e \in {x \in cg.tbl : x[1] = id}}
citersOf(id) == {e[1] : e \in {x \in cg.tbl : x[2] = id /\ x[1] \in cg.cached}}
graphReturned == cg.pc = "done" /\ cg.result = "nil"

C26_OneEdgePerPair ==
    graphReturned =>
       /\ \A i, j \in 1..Len(cg.edges) : cg.edges[i] = cg.edges[j] => i = j
       /\ \A a, b \in referencesOf(cg.center) :
             (a # b /\ <<a, b>> \in cg.tbl /\ <<b, a>> \in cg.tbl) =>
                Cardinality({i \in 1..Len(cg.edges) :
                                {cg.edges[i].Source, cg.edges[i].Target} = {a, b}}) = 1

\* The date-encoding segment of an identifier: what follows the slash of a
\* legacy identifier, the identifier otherwise.
dateSegment(id) ==
    IF \E k \in 1..Len(id) : id[k] = "/"
    THEN SubSeq(id, (CHOOSE k \in 1..Len(id) : id[k] = "/") + 1, Len(id))
    ELSE id

displayYear(id) ==
    LET yy == (Byte(dateSegment(id)[1]) - 48) * 10 + (Byte(dateSegment(id)[2]) - 48)
    IN  IF yy >= 91 THEN 1900 + yy ELSE 2000 + yy

\* C27: in a returned graph a node without stored metadata carries the year
\* its identifier encodes: 91..99 of the last century, 00..90 of this one.
C27_YearFromIdentifier ==
    graphReturned =>
       \A n \in cg.nodes : ~n.Cached => n.Year = displayYear(n.ID)

\* The edges UpdateCitations is to produce for the papers of a rebuild: for
\* each paper found, one edge to each reference extracted from its source,
\* the paper itself excepted.
rebuiltEdges(run) ==
    UNION {{<<run.found[k].id, run.seen[run.found[k].id][j]>> :
               j \in 1..Len(run.seen[run.found[k].id])} : k \in 1..Len(run.found)}

\* C28: when RebuildAllCitations returns nil, the papers it went through are
\* the stored papers flagged src_downloaded, and the citations table holds
\* exactly one row for each edge UpdateCitations is to produce for them and
\* no other row, none from before the rebuild in particular.
C28_RebuildLeavesExactlyExtractedEdges ==
    [][(rb.pc # "done" /\ rb'.pc = "done" /\ rb'.result = "nil") =>
          /\ {rb'.found[k].id : k \in 1..Len(rb'.found)} =
                {p \in PaperIDs : papers'[p].present /\ papers'[p].src_downloaded}
          /\ citations' = SetToBag({e \in rebuiltEdges(rb') : e[1] # e[2]})]_vars

\* The entries the papers table calls for: one for each row, under its
\* rowid, with its title.
mirror == SetToBag({ftsEntry(ix.rows[p]) : p \in {q \in PaperIDs : ix.rows[q].present}})

\* C29: after every write to the papers table the index holds one entry for
\* each paper row, carrying the row's current title, and no other entry.
C29_IndexMirrorsPapers == ix.fts = mirror

\* C30: while DownloadPaper is in the citation step that follows a source
\* download, no step changes the paper's src_downloaded and src_path, and
\* the step that ends the call returns nil, whether references were
\* extracted or not and whether the database calls went through or not.
C30_CitationFailureIsNotFatal ==
    [][\A w \in Callers :
          (calls[w].op = "DownloadPaper" /\ calls[w].pc \in {"cit", "cit_insert"}) =>
             /\ papers'[calls[w].id].src_downloaded = papers[calls[w].id].src_downloaded
             /\ papers'[calls[w].id].src_path = papers[calls[w].id].src_path
             /\ calls'[w].pc = "done" => calls'[w].result = "nil"]_vars

\* A DownloadPaper has returned nil with the source flagged and its path
\* stored although its context was cancelled during the citation step and
\* a reference it extracted has no edge.
C30_Witness ==
    LET c == calls[SeqClient] IN
    /\ c.op = "DownloadPaper" /\ c.pc = "done" /\ c.result = "nil"
    /\ ~c.ctx
    /\ c.srcPath # ""
    /\ papers[c.id].src_downloaded /\ papers[c.id].src_path = c.srcPath
    /\ \E k \in 1..Len(c.refs) : c.refs[k] # c.id /\ ~BagIn(<<c.id, c.refs[k]>>, citations)

\* C31: in a process that runs one DownloadPaper at a time and can die at
\* any step, whenever no call is running a flagged artifact is whole on
\* disk: a PDF flagged downloaded is not a truncated file, a source flagged
\* downloaded is not a partially extracted directory.
C31_FlaggedAfterCrashIsComplete ==
    Free("w1") =>
       \A p \in PaperIDs :
          /\ papers[p].pdf_downloaded => pdfFile[p] # "partial"
          /\ papers[p].src_downloaded => srcDir[p] # "partial"

\* The edges UpdateCitations(id) is to leave for a reference list.
edgesOf(id, refs) == {<<id, refs[j]>> : j \in {k \in 1..Len(refs) : refs[k] # id}}

\* C32: when two UpdateCitations calls for the same paper have both returned
\* under live contexts with references found, the edges from that paper are
\* the reference set of one of the two calls, never a mixture of both.
C32_EdgesAreOneCallsReferences ==
    LET a == calls[Reindexer]
        b == calls["w1"]
    IN  (/\ a.pc = "done" /\ b.pc = "done"
         /\ a.ctx /\ b.ctx
         /\ a.refs # <<>> /\ b.refs # <<>>)
        => EdgesFrom(citations, "p1") \in {edgesOf("p1", a.refs), edgesOf("p1", b.refs)}

\* C33: in SyncMetadata a BatchSize of 0 is run as 1000; once a page has been
\* processed (the token of the page is about to be persisted, or has been) the
\* batch buffer holds fewer than BatchSize records; and a buffer that reached
\* BatchSize is written whole in one upsert and emptied before that.
C33_BufferBelowBatchSize ==
    [][/\ opts'.BatchSize \in (BatchSizes \ {0}) \cup {DefaultBatchSize}
       /\ spc' \in {"token", "sleep"} => Len(batch') < opts'.BatchSize
       /\ (spc = "commit" /\ spc' = "token" /\ Len(batch) >= opts.BatchSize) =>
              /\ batch' = <<>>
              /\ \A p \in Ids(batch) : papers'[p] = HarvestedPaper]_vars

C33_Witness ==
    /\ spc = "token" /\ resp = 2 /\ opts.BatchSize = 2
    /\ batch = <<>>
    /\ Len(log) > 0 /\ log[Len(log)] = "commit"
    /\ Present(papers) = PaperIDs

\* C34: last_sync changes only in the last step of a SyncMetadata run that
\* consumed a page with an empty continuation token and has every record of
\* its final buffer in the Store; a run that ends with an error (page request,
\* batch insert, cancellation) or dies leaves last_sync as it found it.
C34_LastSyncOnlyByCompletedRun ==
    [][/\ syncState'.last_sync # syncState.last_sync =>
              /\ spc = "last_sync" /\ spc' = "done" /\ sresult' = "nil"
              /\ resp \in consumed /\ PageToken(resp) = 0
              /\ \A p \in Ids(batch) : papers[p].present
       /\ (spc' = "done" /\ sresult' # "nil") =>
              syncState'.last_sync = atStart'.last_sync]_vars

C34_Witness ==
    /\ spc = "done" /\ sresult = "nil"
    /\ atStart.last_sync = NoDate /\ syncState.last_sync = Today
    /\ batch # <<>>

\* C35: when DownloadPaper returns nil, each artifact that was asked for is
\* recorded in the Store as downloaded, with its path.
C35_NilMeansRecorded ==
    [][LET c == calls[SeqClient]
           d == calls'[SeqClient]
       IN  (/\ c.op = "DownloadPaper" /\ c.pc # "done"
            /\ d.pc = "done" /\ d.result = "nil") =>
              /\ c.opts.DownloadPDF =>
                    /\ papers'[c.id].pdf_downloaded
                    /\ papers'[c.id].pdf_path = pdfPathOf(c.id)
              /\ c.opts.DownloadSource =>
                    /\ papers'[c.id].src_downloaded
                    /\ papers'[c.id].src_path = srcPathOf(c.id)]_vars

\* C36: a step of UpdateCitations(id) or of DownloadPaper(id) leaves every
\* citation row whose from_id is another paper as it was, and changes the
\* record of no other paper.
C36_OtherPapersUntouched ==
    [][\A w \in Callers :
          LET d == calls'[w] IN
          (d # calls[w] /\ d.op \in {"UpdateCitations", "DownloadPaper"}) =>
             /\ \A p \in PaperIDs \ {d.id} : papers'[p] = papers[p]
             /\ \A e \in BagToSet(citations) \cup BagToSet(citations') :
                   e[1] # d.id => CopiesIn(e, citations') = CopiesIn(e, citations)]_vars

C36_Witness ==
    LET c == calls[SeqClient] IN
    /\ c.op \in {"UpdateCitations", "DownloadPaper"} /\ c.pc = "cit_insert" /\ c.ctx
    /\ c.id = "p1" /\ c.i > 1
    /\ EdgesFrom(citations, "p2") # {}
    /\ papers["p2"].pdf_downloaded

\* C37: whatever Get, Put, Delete and Clear calls have run, the LRUCache holds
\* at most as many entries as the capacity fixed by NewLRUCache (500000 when
\* a capacity <= 0 was asked for), and the map and the recency list hold the
\* same keys, each once.
C37_SizeWithinCapacityMapMatchesList ==
    /\ paperLRU.capacity \in {c \in Capacities : c > 0} \cup {DefaultCapacity}
    /\ Len(paperLRU.list) <= paperLRU.capacity
    /\ ListKeys(paperLRU.list) = paperLRU.cache
    /\ Cardinality(paperLRU.cache) = Len(paperLRU.list)

C37_Witness ==
    /\ lruCalls["g1"].op = "Put" /\ lruCalls["g1"].pc = "unlock"
    /\ lruCalls["g1"].ret.evicted # "none"
    /\ Len(paperLRU.list) = paperLRU.capacity
    /\ paperLRU.capacity = 3

\* C38: every edge of a returned graph has its source and its target among
\* the returned nodes, also for a central paper cited by more stored papers
\* than CitedBy is asked for.
C38_EdgeEndpointsAreNodes ==
    graphReturned =>
       \A k \in 1..Len(cg.edges) :
          /\ \E n \in cg.nodes : n.ID = cg.edges[k].Source
          /\ \E n \in cg.nodes : n.ID = cg.edges[k].Target

C38_Witness ==
    /\ graphReturned /\ cg.ctx
    /\ CitedByCount(cg.tbl, TRUE, cg.center) > graphLimit
    /\ Len(cg.citedBy) = graphLimit
    /\ Len(cg.edges) = graphLimit + 1

\* C39: once SyncMetadata has been invoked, and is invoked again after every
\* run that failed, the harvest completes in the end: no continuation token
\* is persisted and last_sync is set.
C39_HarvestEventuallyCompletes ==
    (spc = "loop") ~> (syncState.resumption_token = 0 /\ syncState.last_sync = Today)

\* C40: while a background source download started by a page view runs, its
\* context is live exactly as long as the process-lifetime signal has not
\* fired, whatever became of the request that started it.
C40_BackgroundFollowsProcessContext ==
    (calls[Background].op = "DownloadPaper" /\ ~Free(Background)) =>
       calls[Background].ctx = sv

====
